---- MODULE Spec2Model ----
(***************************************************************************)
(* Auto-Mute, queue-based program (src/EventHookProcessID.cpp:505-1302).   *)
(*                                                                         *)
(* Three threads are modelled:                                             *)
(*   - the main thread (WinMain and, inside its message loop, the          *)
(*     WinEventProc callback),                                             *)
(*   - the audio thread (AudioThreadRoutine: startup enumeration, then the *)
(*     work/quit wait loop that drains eventQueue through                  *)
(*     SwitchMuteStates, then teardown),                                   *)
(*   - a notification thread of the audio subsystem that runs              *)
(*     CSessionNotifier::OnSessionCreated.                                 *)
(* The audio subsystem is an environment: sessions come into existence,    *)
(* calls into it may fail, and every session carries a mute flag.          *)
(***************************************************************************)
EXTENDS Integers, Sequences, FiniteSets, Bags, TLC

\* ------------------------------------------------------------------ bounds
NumPids     == 3      \* process ids 1..NumPids own windows and sessions
NumSessions == 3      \* audio sessions 1..NumSessions of the audio subsystem
MaxEvents   == 3      \* focus changes WinEventProc pushes in one run
MaxFaults   == 1      \* failing calls and racing queue accesses in one run
MaxLate     == 2      \* sessions created after the notification was registered

Pids     == 1..NumPids
\* The values a DWORD process id takes in the model: 0 and the process ids
ArgPids  == 0..NumPids
Sessions == 1..NumSessions
NoSession == 0

\* ------------------------------------------------- the audio subsystem
\* What IAudioSessionControl2::GetProcessId stores in sessionProcessId:
\* sessions 1, 2, 3, 4, 5, ... belong to processes 1, 2, 1, 0, 1, ...
\* (process id 0 is what the system-sounds session reports).
SessionPid(s) == IF s % 4 = 0 THEN 0 ELSE ((s - 1) % 2) + 1

\* GetProcessId answers AUDCLNT_S_NO_SINGLE_PROCESS for these sessions
\* (and still stores the id of the process that created the session).
CrossProcess(s) == s % 4 = 3

GetProcessIdResult(s) ==
  IF CrossProcess(s) THEN "AUDCLNT_S_NO_SINGLE_PROCESS" ELSE "S_OK"

\* wstrFullSessionId: to_wstring(pid) + L"!" + sessionId + L"!" + instanceId.
\* The session identifier is per application (process), the instance
\* identifier per session of it.
FullSessionId(s) == <<SessionPid(s), "!", SessionPid(s), "!", s>>

Threads == {"enum", "cb"}

VARIABLES
  \* audio subsystem
  created,          \* sessions that exist in the audio subsystem
  mute,             \* mute[s]: the mute flag of session s
  pendingCb,        \* sessions whose OnSessionCreated call is still due
  notifRegistered,  \* RegisterSessionNotification(pCallback) is in force
  faults,           \* calls that have failed so far
  late,             \* sessions created so far while the notification was in force
  disconnected,     \* sessions whose OnSessionDisconnected notification was delivered
  lastRun,          \* the inputs and the trace of the AutoMuteRoutine call made (bookkeeping)
  \* globals of the program
  sessionsList,     \* unordered_multimap<DWORD, IAudioSessionControl2*>: bag of <<key, session>>
  sessionIdSet,     \* unordered_set<wstring>
  eventQueue,       \* queue<pair<DWORD,DWORD>>
  oldProcessId,     \* DWORD oldProcessId
  ghEvents,         \* ghEvents[0] auto-reset work event, ghEvents[1] manual-reset quit event
  \* AddAudioSession, one activation per calling thread
  apc,              \* apc[t]: position of thread t inside AddAudioSession
  asess,            \* asess[t]: pSession of the call
  aret,             \* aret[t]: the HRESULT the call returned: "S_OK", or the failure code
                    \* of a getter ("E_GET") or of the registration ("E_REGISTER")
  addRefs,          \* addRefs[s]: pSession->AddRef() calls made by AddAudioSession
  released,         \* released[s]: Release() calls made by the loops over sessionsList
  aentry,           \* aentry[t]: what the call found on entry (bookkeeping for the checks)
  completed,        \* sessions for which some AddAudioSession call has returned
  \* AudioThreadRoutine
  wpc,              \* position of the audio thread
  enumSnap,         \* the sessions of the enumerator obtained by GetSessionEnumerator
  enumI,            \* loop index i of the enumeration loop
  whr,              \* hr of AudioThreadRoutine
  processIds,       \* pair<DWORD,DWORD> processIds of the wait loop
  exitCode,         \* return value of AudioThreadRoutine, -1 while it runs
  \* WinMain / WinEventProc
  mpc,              \* position of the main thread
  switchedProcessId,\* local of WinEventProc
  pushRace,         \* outcome of a pop that overlapped the push in progress
  hooked,           \* the WinEvent hook is installed
  mainExit,         \* return value of WinMain, -1 while it runs
  \* bookkeeping for the checks
  nPushed,          \* number of events WinEventProc has pushed
  unapplied,        \* the pushed events not yet passed to SwitchMuteStates, in push order
  lastCalls,        \* SetMute attempts of the SwitchMuteStates just made: <<session, bMute, outcome>>
  batch             \* the events applied since the wait loop last woke (bookkeeping)

vars == <<created, mute, pendingCb, notifRegistered, faults, late, disconnected, lastRun, sessionsList,
          sessionIdSet, eventQueue, oldProcessId, ghEvents, apc, asess, aret,
          addRefs, released, aentry, completed, wpc, enumSnap, enumI, whr,
          processIds, exitCode, mpc, switchedProcessId, pushRace, hooked,
          mainExit, nPushed, unapplied, lastCalls, batch>>

sessVars  == <<created, pendingCb, notifRegistered, late, disconnected, lastRun>>
regVars   == <<sessionsList, sessionIdSet, addRefs, released>>
addVars   == <<apc, asess, aret, aentry, completed>>
queueVars == <<eventQueue, pushRace, nPushed>>
mainVars  == <<mpc, switchedProcessId, hooked, mainExit, oldProcessId>>
workVars  == <<wpc, enumSnap, enumI, whr, processIds, exitCode>>
histVars  == <<unapplied, lastCalls, batch>>

\* ------------------------------------------------------- registry helpers
\* sessionsList.count(key)
Count(list, key) ==
  LET RECURSIVE Sum(_)
      Sum(S) == IF S = {} THEN 0
                ELSE LET e == CHOOSE x \in S : TRUE
                     IN CopiesIn(e, list) + Sum(S \ {e})
  IN Sum({e \in BagToSet(list) : e[1] = key})

\* sessionsList.equal_range(key): the sessions stored under key
EqualRange(list, key) == {e[2] : e \in {x \in BagToSet(list) : x[1] = key}}

\* number of entries of sessionsList that hold session s
Entries(list, s) == CopiesIn(<<SessionPid(s), s>>, list)

\* ------------------------------------------------------------------ Init
NoEntry == [cnt |-> 0, refs |-> 0, afterCall |-> FALSE, alone |-> FALSE]

\* batch.procs: the old process ids of the events applied since the wake-up;
\* batch.inCase: these events were all queued when the worker woke and each
\* one's old process id is its predecessor's new process id;
\* batch.ok: every QueryInterface and SetMute call made for them succeeded.
NoBatch == [procs |-> {}, inCase |-> FALSE, ok |-> TRUE]

\* lastRun while no call of AutoMuteRoutine has been made
NoRun == [called |-> FALSE]

Init ==
  /\ \E k \in 0..NumSessions : created = 1..k
  /\ mute = [s \in Sessions |-> FALSE]
  /\ pendingCb = {}
  /\ notifRegistered = FALSE
  /\ faults = 0
  /\ late = 0
  /\ disconnected = {}
  /\ lastRun = NoRun
  /\ sessionsList = EmptyBag
  /\ sessionIdSet = {}
  /\ eventQueue = << >>
  /\ oldProcessId = 0
  /\ ghEvents = [i \in 0..1 |-> FALSE]
  /\ apc = [t \in Threads |-> "idle"]
  /\ asess = [t \in Threads |-> NoSession]
  /\ aret = [t \in Threads |-> "S_OK"]
  /\ addRefs = [s \in Sessions |-> 0]
  /\ released = [s \in Sessions |-> 0]
  /\ aentry = [t \in Threads |-> NoEntry]
  /\ completed = {}
  /\ wpc = "notStarted"
  /\ enumSnap = << >>
  /\ enumI = 0
  /\ whr = "S_OK"
  /\ processIds = <<0, 0>>
  /\ exitCode = -1
  /\ mpc = "init"
  /\ switchedProcessId = 0
  /\ pushRace = "none"
  /\ hooked = FALSE
  /\ mainExit = -1
  /\ nPushed = 0
  /\ unapplied = << >>
  /\ lastCalls = {}
  /\ batch = NoBatch

\* The process lives until WinMain returns.
Alive == mainExit = -1

\* A call into the audio subsystem or the OS fails.
Fault ==
  /\ faults < MaxFaults
  /\ faults' = faults + 1

\* ------------------------------------------------------- audio subsystem
\* A new session appears while the session-created notification is in
\* force; the subsystem owes the program one OnSessionCreated call for it.
CreateSession(s) ==
  /\ Alive
  /\ notifRegistered
  /\ s \notin created
  /\ late < MaxLate
  /\ late' = late + 1
  /\ created' = created \cup {s}
  /\ pendingCb' = pendingCb \cup {s}
  /\ UNCHANGED <<mute, notifRegistered, disconnected, lastRun, faults, regVars, addVars,
                 queueVars, mainVars, workVars, ghEvents, histVars>>

\* ------------------------------------------------------- AddAudioSession
\* Entry of AddAudioSession(pSession, pAudioSessionEvents) on thread t.
BeginAdd(t, s) ==
  /\ apc' = [apc EXCEPT ![t] = "get"]
  /\ asess' = [asess EXCEPT ![t] = s]
  /\ aentry' = [u \in Threads |->
                  IF u = t
                  THEN [cnt |-> Entries(sessionsList, s),
                        refs |-> addRefs[s],
                        afterCall |-> s \in completed,
                        alone |-> \A v \in Threads \ {t} : apc[v] = "idle"]
                  ELSE [aentry[u] EXCEPT !.alone = FALSE]]

\* Variant: the identity is never found in the set
IsDuplicate_Never(set, s) == FALSE

\* sessionIdSet.count(wstrFullSessionId) # 0
IsDuplicate(set, s) == FullSessionId(s) \in set

\* GetDisplayName .. GetProcessId, then the duplicate test on sessionIdSet.
AddGet(t) ==
  /\ Alive
  /\ apc[t] = "get"
  /\ \/ \* one of the four getters fails: return hr
        /\ Fault
        /\ aret' = [aret EXCEPT ![t] = "E_GET"]
        /\ apc' = [apc EXCEPT ![t] = "ret"]
        /\ completed' = completed \cup {asess[t]}
     \/ \* sessionIdSet.count(wstrFullSessionId): duplicate, return S_OK
        /\ GetProcessIdResult(asess[t]) \in {"S_OK", "AUDCLNT_S_NO_SINGLE_PROCESS"}
        /\ IsDuplicate(sessionIdSet, asess[t])
        /\ aret' = [aret EXCEPT ![t] = "S_OK"]
        /\ apc' = [apc EXCEPT ![t] = "ret"]
        /\ completed' = completed \cup {asess[t]}
        /\ UNCHANGED faults
     \/ /\ GetProcessIdResult(asess[t]) \in {"S_OK", "AUDCLNT_S_NO_SINGLE_PROCESS"}
        /\ ~IsDuplicate(sessionIdSet, asess[t])
        /\ apc' = [apc EXCEPT ![t] = "insertId"]
        /\ UNCHANGED <<aret, completed, faults>>
  /\ UNCHANGED <<sessVars, mute, regVars, asess, aentry, queueVars, mainVars,
                 workVars, ghEvents, histVars>>

\* sessionIdSet.insert(wstrFullSessionId)
AddInsertId(t) ==
  /\ Alive
  /\ apc[t] = "insertId"
  /\ sessionIdSet' = sessionIdSet \cup {FullSessionId(asess[t])}
  /\ apc' = [apc EXCEPT ![t] = "register"]
  /\ UNCHANGED <<sessVars, mute, faults, sessionsList, addRefs, released, asess,
                 aret, aentry, completed, queueVars, mainVars, workVars,
                 ghEvents, histVars>>

\* Variant: a session is muted when it is registered
AddRegister_MuteNew(t) ==
  /\ Alive
  /\ apc[t] = "register"
  /\ \/ /\ Fault
        /\ aret' = [aret EXCEPT ![t] = "E_REGISTER"]
        /\ UNCHANGED <<sessionsList, addRefs, mute>>
     \/ /\ addRefs' = [addRefs EXCEPT ![asess[t]] = @ + 1]
        /\ sessionsList' = sessionsList (+) SetToBag({<<SessionPid(asess[t]), asess[t]>>})
        /\ mute' = [mute EXCEPT ![asess[t]] = TRUE]
        /\ aret' = [aret EXCEPT ![t] = "S_OK"]
        /\ UNCHANGED faults
  /\ apc' = [apc EXCEPT ![t] = "ret"]
  /\ completed' = completed \cup {asess[t]}
  /\ UNCHANGED <<sessVars, sessionIdSet, released, asess, aentry,
                 queueVars, mainVars, workVars, ghEvents, histVars>>

\* RegisterAudioSessionNotification, then AddRef and the insertion into
\* sessionsList inside hashmapCriticalSection.
\* (The E_POINTER result the code lets through is returned for a null
\* argument only, and pAudioSessionEvents is the address of an object.)
AddRegister(t) ==
  /\ Alive
  /\ apc[t] = "register"
  /\ \/ \* registration fails: return hr
        /\ Fault
        /\ aret' = [aret EXCEPT ![t] = "E_REGISTER"]
        /\ UNCHANGED <<sessionsList, addRefs>>
     \/ /\ addRefs' = [addRefs EXCEPT ![asess[t]] = @ + 1]
        /\ sessionsList' = sessionsList (+) SetToBag({<<SessionPid(asess[t]), asess[t]>>})
        /\ aret' = [aret EXCEPT ![t] = "S_OK"]
        /\ UNCHANGED faults
  /\ apc' = [apc EXCEPT ![t] = "ret"]
  /\ completed' = completed \cup {asess[t]}
  /\ UNCHANGED <<sessVars, mute, sessionIdSet, released, asess, aentry,
                 queueVars, mainVars, workVars, ghEvents, histVars>>

\* ------------------------------------ CSessionNotifier::OnSessionCreated
OnSessionCreated(s) ==
  /\ Alive
  /\ s \in pendingCb
  /\ apc["cb"] = "idle"
  /\ pendingCb' = pendingCb \ {s}
  /\ \/ \* QueryInterface<IAudioSessionControl2> fails: return hr
        /\ Fault
        /\ UNCHANGED <<apc, asess, aentry>>
     \/ /\ BeginAdd("cb", s)
        /\ UNCHANGED faults
  /\ UNCHANGED <<created, notifRegistered, late, disconnected, lastRun, mute, regVars, aret, completed,
                 queueVars, mainVars, workVars, ghEvents, histVars>>

\* pCtrl2->Release(); return hr
OnSessionCreatedReturn ==
  /\ Alive
  /\ apc["cb"] = "ret"
  /\ apc' = [apc EXCEPT !["cb"] = "idle"]
  /\ aentry' = [aentry EXCEPT !["cb"] = NoEntry]
  /\ UNCHANGED <<sessVars, mute, faults, regVars, asess, aret, completed,
                 queueVars, mainVars, workVars, ghEvents, histVars>>

\* ------------------------------------------------------ SwitchMuteStates
\* The SetMute calls SwitchMuteStates(oldProc, newProc) attempts: bMute TRUE
\* for the equal_range of oldProc, then bMute FALSE for that of newProc.
MuteCalls(list, oldProc, newProc) ==
  {<<s, TRUE>> : s \in IF Count(list, oldProc) # 0 THEN EqualRange(list, oldProc) ELSE {}}
    \cup
  {<<s, FALSE>> : s \in IF Count(list, newProc) # 0 THEN EqualRange(list, newProc) ELSE {}}

\* Per attempted call: "ok", "noVolume" (QueryInterface<ISimpleAudioVolume>
\* left pVol null, SetMute is skipped) or "failed" (SetMute returned an error).
CallOutcomes == {"ok", "noVolume", "failed"}

NotOk(out) == {c \in DOMAIN out : out[c] # "ok"}

\* Variant: the loop over newProc is missing
SwitchMuteStates_NoUnmute(list, m, oldProc, newProc, out) ==
  [s \in Sessions |->
     IF <<s, TRUE>> \in MuteCalls(list, oldProc, newProc) /\ out[<<s, TRUE>>] = "ok"
     THEN TRUE ELSE m[s]]

\* Variant: the loop over oldProc is missing
SwitchMuteStates_NoMute(list, m, oldProc, newProc, out) ==
  [s \in Sessions |->
     IF <<s, FALSE>> \in MuteCalls(list, oldProc, newProc) /\ out[<<s, FALSE>>] = "ok"
     THEN FALSE ELSE m[s]]

\* Variant: everything that is not unmuted is muted, whatever its key
SwitchMuteStates_MuteAllOthers(list, m, oldProc, newProc, out) ==
  [s \in Sessions |->
     IF <<s, FALSE>> \in MuteCalls(list, oldProc, newProc)
     THEN (out[<<s, FALSE>>] # "ok" /\ m[s])
     ELSE Entries(list, s) > 0 \/ m[s]]

\* Variant: the first call that fails ends the batch; the loops visit the
\* sessions of a key in ascending order, oldProc before newProc
SwitchMuteStates_AbortOnFailure(list, m, oldProc, newProc, out) ==
  LET calls == MuteCalls(list, oldProc, newProc)
      aborted(s, b) == \E c \in calls :
                          /\ out[c] # "ok"
                          /\ \/ c[2] /\ ~b
                             \/ c[2] = b /\ c[1] < s
  IN [s \in Sessions |->
        IF <<s, FALSE>> \in calls /\ out[<<s, FALSE>>] = "ok" /\ ~aborted(s, FALSE)
        THEN FALSE
        ELSE IF <<s, TRUE>> \in calls /\ out[<<s, TRUE>>] = "ok" /\ ~aborted(s, TRUE)
        THEN TRUE
        ELSE m[s]]

\* The mute flags after SwitchMuteStates; the loop over newProc runs second.
SwitchMuteStates(list, m, oldProc, newProc, out) ==
  LET calls == MuteCalls(list, oldProc, newProc)
  IN [s \in Sessions |->
        IF <<s, FALSE>> \in calls /\ out[<<s, FALSE>>] = "ok" THEN FALSE
        ELSE IF <<s, TRUE>> \in calls /\ out[<<s, TRUE>>] = "ok" THEN TRUE
        ELSE m[s]]

\* ---------------------------------------------------- AudioThreadRoutine
\* Unregister the session notification and run the loop over sessionsList
\* that unregisters and releases every handle (the list itself is not erased).
Teardown ==
  /\ notifRegistered' = FALSE
  /\ pendingCb' = {}
  /\ released' = [s \in Sessions |-> released[s] + Entries(sessionsList, s)]

ThreadExit(code) ==
  /\ exitCode' = code
  /\ wpc' = "done"

\* CoInitializeEx and GetIAudioSessionManager2
AudioInit ==
  /\ Alive
  /\ wpc = "init"
  /\ \/ Fault /\ \E code \in {2, 3} : ThreadExit(code)
     \/ wpc' = "regNotif" /\ UNCHANGED <<exitCode, faults>>
  /\ UNCHANGED <<sessVars, mute, regVars, addVars, queueVars, mainVars, enumSnap,
                 enumI, whr, processIds, ghEvents, histVars>>

\* pMgr->RegisterSessionNotification(pCallback)
AudioRegisterNotification ==
  /\ Alive
  /\ wpc = "regNotif"
  /\ \/ Fault /\ ThreadExit(4) /\ UNCHANGED notifRegistered
     \/ notifRegistered' = TRUE /\ wpc' = "getEnum" /\ UNCHANGED <<exitCode, faults>>
  /\ UNCHANGED <<created, pendingCb, late, disconnected, lastRun, mute, regVars, addVars, queueVars,
                 mainVars, enumSnap, enumI, whr, processIds, ghEvents, histVars>>

\* The sessions of a set in enumerator order
RECURSIVE SetToSeq(_)
SetToSeq(S) ==
  IF S = {} THEN << >>
  ELSE LET x == CHOOSE y \in S : \A z \in S : y <= z
       IN <<x>> \o SetToSeq(S \ {x})

\* GetSessionEnumerator and GetCount
AudioGetEnumerator ==
  /\ Alive
  /\ wpc = "getEnum"
  /\ \/ /\ Fault
        /\ \E code \in {5, 6} : ThreadExit(code)
        /\ Teardown
        /\ UNCHANGED <<enumSnap, enumI, whr>>
     \/ /\ enumSnap' = SetToSeq(created)
        /\ enumI' = 0
        /\ whr' = "S_OK"
        /\ wpc' = "loop"
        /\ UNCHANGED <<exitCode, notifRegistered, pendingCb, released, faults>>
  /\ UNCHANGED <<created, late, disconnected, lastRun, mute, sessionsList, sessionIdSet, addRefs, addVars,
                 queueVars, mainVars, processIds, ghEvents, histVars>>

\* for(i < numSessions): GetSession, QueryInterface, call AddAudioSession
AudioEnumStep ==
  /\ Alive
  /\ wpc = "loop"
  /\ IF enumI < Len(enumSnap)
     THEN \/ /\ Fault
             /\ whr' = "E_FAIL"
             /\ wpc' = "afterLoop"
             /\ UNCHANGED <<apc, asess, aentry>>
          \/ /\ BeginAdd("enum", enumSnap[enumI + 1])
             /\ wpc' = "inAdd"
             /\ UNCHANGED <<whr, faults>>
     ELSE /\ wpc' = "afterLoop"
          /\ UNCHANGED <<whr, apc, asess, aentry, faults>>
  /\ UNCHANGED <<sessVars, mute, regVars, aret, completed, queueVars, mainVars,
                 enumSnap, enumI, processIds, exitCode, ghEvents, histVars>>

\* hr = AddAudioSession(...); pCtrl2->Release(); break on a failure code
AudioEnumAfterAdd ==
  /\ Alive
  /\ wpc = "inAdd"
  /\ apc["enum"] = "ret"
  /\ apc' = [apc EXCEPT !["enum"] = "idle"]
  /\ aentry' = [aentry EXCEPT !["enum"] = NoEntry]
  /\ whr' = aret["enum"]
  /\ enumI' = enumI + 1
  /\ wpc' = IF aret["enum"] \in {"S_OK", "AUDCLNT_S_NO_SINGLE_PROCESS"}
            THEN "loop" ELSE "afterLoop"
  /\ UNCHANGED <<sessVars, mute, faults, regVars, asess, aret, completed,
                 queueVars, mainVars, enumSnap, processIds, exitCode, ghEvents,
                 histVars>>

\* After the loop: unwind with code 7, or SetEvent(ghEvents[0]) as ready signal
AudioAfterLoop ==
  /\ Alive
  /\ wpc = "afterLoop"
  /\ IF whr \notin {"S_OK", "AUDCLNT_S_NO_SINGLE_PROCESS"}
     THEN /\ ThreadExit(7)
          /\ Teardown
          /\ UNCHANGED ghEvents
     ELSE /\ ghEvents' = [ghEvents EXCEPT ![0] = TRUE]
          /\ wpc' = "barrier"
          /\ UNCHANGED <<exitCode, notifRegistered, pendingCb, released>>
  /\ UNCHANGED <<created, late, disconnected, lastRun, mute, faults, sessionsList,
                 sessionIdSet, addRefs, addVars, queueVars, mainVars, enumSnap, enumI, whr, processIds,
                 histVars>>

\* EnterSynchronizationBarrier on both threads: the second arrival frees both
Barrier ==
  /\ Alive
  /\ wpc = "barrier"
  /\ mpc = "barrier"
  /\ wpc' = "wait"
  /\ mpc' = "hook"
  /\ UNCHANGED <<sessVars, mute, faults, regVars, addVars, queueVars,
                 switchedProcessId, hooked, mainExit, oldProcessId, enumSnap,
                 enumI, whr, processIds, exitCode, ghEvents, histVars>>

\* Variant: the quit event wins over the work event
AudioWait_QuitFirst ==
  /\ Alive
  /\ wpc = "wait"
  /\ \/ /\ ghEvents[1]
        /\ wpc' = "cleanup"
        /\ UNCHANGED <<ghEvents, batch>>
     \/ /\ ~ghEvents[1]
        /\ ghEvents[0]
        /\ ghEvents' = [ghEvents EXCEPT ![0] = FALSE]
        /\ wpc' = "empty"
        /\ batch' = [procs |-> {}, inCase |-> mpc # "pushing", ok |-> TRUE]
  /\ UNCHANGED <<sessVars, mute, faults, regVars, addVars, queueVars, mainVars,
                 enumSnap, enumI, whr, processIds, exitCode, unapplied, lastCalls>>

\* WaitForMultipleObjects(2, ghEvents, false, INFINITE): index 0 wins when
\* both are signalled and is reset by the wait; any other index ends the loop
AudioWait ==
  /\ Alive
  /\ wpc = "wait"
  /\ \/ /\ ghEvents[0]
        /\ ghEvents' = [ghEvents EXCEPT ![0] = FALSE]
        /\ wpc' = "empty"
        /\ batch' = [procs |-> {}, inCase |-> mpc # "pushing", ok |-> TRUE]
     \/ /\ ~ghEvents[0]
        /\ ghEvents[1]
        /\ wpc' = "cleanup"
        /\ UNCHANGED <<ghEvents, batch>>
  /\ UNCHANGED <<sessVars, mute, faults, regVars, addVars, queueVars, mainVars,
                 enumSnap, enumI, whr, processIds, exitCode, unapplied, lastCalls>>

\* while(!eventQueue.empty())
AudioEmpty ==
  /\ Alive
  /\ wpc = "empty"
  /\ wpc' = IF eventQueue # << >> THEN "switch" ELSE "wait"
  /\ UNCHANGED <<sessVars, mute, faults, regVars, addVars, queueVars, mainVars,
                 enumSnap, enumI, whr, processIds, exitCode, ghEvents, histVars>>

\* processIds = eventQueue.front(); SwitchMuteStates(first, second)
AudioSwitch ==
  /\ Alive
  /\ wpc = "switch"
  /\ processIds' = Head(eventQueue)
  /\ \E out \in [MuteCalls(sessionsList, processIds'[1], processIds'[2]) -> CallOutcomes] :
       /\ faults + Cardinality(NotOk(out)) <= MaxFaults
       /\ faults' = faults + Cardinality(NotOk(out))
       /\ mute' = SwitchMuteStates(sessionsList, mute, processIds'[1], processIds'[2], out)
       /\ lastCalls' = {<<c[1], c[2], out[c]>> : c \in DOMAIN out}
       /\ batch' = IF batch.inCase /\ (batch.procs = {} \/ processIds'[1] = processIds[2])
                   THEN [procs |-> batch.procs \cup {processIds'[1]}, inCase |-> TRUE,
                         ok |-> batch.ok /\ NotOk(out) = {}]
                   ELSE NoBatch
  /\ unapplied' = IF unapplied # << >> /\ Head(unapplied) = processIds'
                  THEN Tail(unapplied) ELSE unapplied
  /\ wpc' = "pop"
  /\ UNCHANGED <<sessVars, regVars, addVars, queueVars, mainVars, enumSnap, enumI,
                 whr, exitCode, ghEvents>>

\* eventQueue.pop().  The queue is shared with WinEventProc without a lock:
\* a pop that overlaps a push in progress races with it on the container's
\* bookkeeping (both update the element count).  Outcomes of the overlap:
\* both updates survive ("none"), the push's update is overwritten so the
\* pushed event is not in the queue ("lost"), or the pop's update is
\* overwritten so the queue ends one slot too long and exposes a stale
\* slot after the pushed event ("stale").
PopRace(m, race) ==
  IF m = "pushing" /\ race = "none" THEN {"none", "lost", "stale"} ELSE {race}

AudioPop ==
  /\ Alive
  /\ wpc = "pop"
  /\ eventQueue' = Tail(eventQueue)
  /\ \E r \in PopRace(mpc, pushRace) :
       /\ pushRace' = r
       /\ IF r # pushRace THEN Fault ELSE UNCHANGED faults
  /\ lastCalls' = {}
  /\ wpc' = "empty"
  /\ UNCHANGED <<sessVars, mute, regVars, addVars, nPushed, mainVars, enumSnap,
                 enumI, whr, processIds, exitCode, ghEvents, unapplied, batch>>

\* End-of-program cleanup and return (DWORD) hr
AudioCleanup ==
  /\ Alive
  /\ wpc = "cleanup"
  /\ Teardown
  /\ ThreadExit(0)
  /\ UNCHANGED <<created, late, disconnected, lastRun, mute, faults, sessionsList,
                 sessionIdSet, addRefs, addVars, queueVars, mainVars, enumSnap, enumI, whr, processIds,
                 ghEvents, histVars>>

\* ---------------------------------------------------------------- WinMain
\* CreateEvent twice, InitializeSynchronizationBarrier, the critical section
\* and CreateThread; a failure returns 1 (events, barrier) or 2 (thread)
MainInit ==
  /\ Alive
  /\ mpc = "init"
  /\ \/ /\ Fault
        /\ \E code \in {1, 2} : mainExit' = code
        /\ mpc' = "done"
        /\ UNCHANGED wpc
     \/ /\ mpc' = "waitReady"
        /\ wpc' = "init"
        /\ UNCHANGED <<mainExit, faults>>
  /\ UNCHANGED <<sessVars, mute, regVars, addVars, queueVars, switchedProcessId,
                 hooked, oldProcessId, enumSnap, enumI, whr, processIds, exitCode,
                 ghEvents, histVars>>

\* The value WinMain returns when the startup wait does not end with the
\* ready signal
StartupWaitExit == 3

\* Variant: the startup wait leaves the ready event signalled
MainWaitReady_NoReset ==
  /\ Alive
  /\ mpc = "waitReady"
  /\ \/ /\ ghEvents[0]
        /\ mpc' = "barrier"
        /\ UNCHANGED mainExit
     \/ /\ ~ghEvents[0]
        /\ mainExit' = StartupWaitExit
        /\ mpc' = "done"
  /\ UNCHANGED <<sessVars, mute, faults, regVars, addVars, queueVars, ghEvents,
                 switchedProcessId, hooked, oldProcessId, workVars, histVars>>

\* WaitForMultipleObjects(2, {ghEvents[0], hAudioThread}, false, 20000):
\* the ready signal (index 0, reset by the wait) lets WinMain go on; the end
\* of the thread or the timeout makes it return 3
MainWaitReady ==
  /\ Alive
  /\ mpc = "waitReady"
  /\ \/ /\ ghEvents[0]
        /\ ghEvents' = [ghEvents EXCEPT ![0] = FALSE]
        /\ mpc' = "barrier"
        /\ UNCHANGED mainExit
     \/ /\ ~ghEvents[0]
        /\ mainExit' = StartupWaitExit
        /\ mpc' = "done"
        /\ UNCHANGED ghEvents
  /\ UNCHANGED <<sessVars, mute, faults, regVars, addVars, queueVars,
                 switchedProcessId, hooked, oldProcessId, workVars, histVars>>

\* SetWinEventHook; its result is not checked before the message loop
MainSetHook ==
  /\ Alive
  /\ mpc = "hook"
  /\ \/ Fault /\ hooked' = FALSE
     \/ hooked' = TRUE /\ UNCHANGED faults
  /\ mpc' = "loop"
  /\ UNCHANGED <<sessVars, mute, regVars, addVars, queueVars, switchedProcessId,
                 mainExit, oldProcessId, workVars, ghEvents, histVars>>

\* ----------------------------------------------------------- WinEventProc
\* Variant: the comparison with oldProcessId is missing
SameProcess_Never(switched, old) == FALSE

\* switchedProcessId == oldProcessId
SameProcess(switched, old) == switched = old

\* A foreground event for a window of process p is dispatched by the message
\* loop: GetWindowThreadProcessId, the comparison with oldProcessId, and
\* eventQueue.push(make_pair(oldProcessId, switchedProcessId)) starts.
\* GetWindowThreadProcessId fails when the window is gone by the time the
\* event is delivered; switchedProcessId is then read uninitialised, which
\* is how it can be 0.
WinEventProcEnter(p) ==
  /\ Alive
  /\ mpc = "loop"
  /\ hooked
  /\ nPushed < MaxEvents
  /\ IF p \in Pids THEN UNCHANGED faults ELSE Fault
  /\ switchedProcessId' = p
  /\ IF SameProcess(p, oldProcessId)
     THEN UNCHANGED <<mpc, nPushed, unapplied, pushRace, batch>>
     ELSE /\ mpc' = "pushing"
          /\ nPushed' = nPushed + 1
          /\ unapplied' = Append(unapplied, <<oldProcessId, p>>)
          /\ pushRace' = "none"
          /\ batch' = IF wpc \in {"empty", "switch", "pop"} THEN NoBatch ELSE batch
  /\ UNCHANGED <<sessVars, mute, regVars, addVars, eventQueue, hooked,
                 mainExit, oldProcessId, workVars, ghEvents, lastCalls>>

\* What a stale slot of the queue can hold: zeroed storage, or an event
\* stored in the queue before (the one just popped, the one just pushed)
StaleEvents(popped, e) == {<<0, 0>>, popped, e}

\* What the queue holds when a push of e ends
PushResult(q, e, race, stale) ==
  CASE race = "none"  -> Append(q, e)
    [] race = "lost"  -> q
    [] race = "stale" -> Append(Append(q, e), stale)

\* eventQueue.push(...) ends
WinEventProcPushEnd ==
  /\ Alive
  /\ mpc = "pushing"
  /\ \E stale \in StaleEvents(processIds, <<oldProcessId, switchedProcessId>>) :
       eventQueue' = PushResult(eventQueue, <<oldProcessId, switchedProcessId>>,
                                pushRace, stale)
  /\ pushRace' = "none"
  /\ mpc' = "setEvent"
  /\ UNCHANGED <<sessVars, mute, faults, regVars, addVars, nPushed,
                 switchedProcessId, hooked, mainExit, oldProcessId, workVars,
                 ghEvents, histVars>>

\* Variant: the callback applies the switch itself, as WinEventProc of
\* src/unnamed/part_000 does, instead of leaving it to the worker
WinEventProcSetEvent_DirectSwitch ==
  /\ Alive
  /\ mpc = "setEvent"
  /\ mute' = SwitchMuteStates(sessionsList, mute, oldProcessId, switchedProcessId,
                              [c \in MuteCalls(sessionsList, oldProcessId,
                                               switchedProcessId) |-> "ok"])
  /\ ghEvents' = [ghEvents EXCEPT ![0] = TRUE]
  /\ oldProcessId' = switchedProcessId
  /\ mpc' = "loop"
  /\ UNCHANGED <<sessVars, faults, regVars, addVars, queueVars,
                 switchedProcessId, hooked, mainExit, workVars, histVars>>

\* Variant: the push is not followed by SetEvent
WinEventProcSetEvent_NoSignal ==
  /\ Alive
  /\ mpc = "setEvent"
  /\ oldProcessId' = switchedProcessId
  /\ mpc' = "loop"
  /\ UNCHANGED <<sessVars, mute, faults, regVars, addVars, queueVars, ghEvents,
                 switchedProcessId, hooked, mainExit, workVars, histVars>>

\* Variant: oldProcessId is not updated after the push
WinEventProcSetEvent_KeepOld ==
  /\ Alive
  /\ mpc = "setEvent"
  /\ ghEvents' = [ghEvents EXCEPT ![0] = TRUE]
  /\ mpc' = "loop"
  /\ UNCHANGED <<sessVars, mute, faults, regVars, addVars, queueVars, oldProcessId,
                 switchedProcessId, hooked, mainExit, workVars, histVars>>

\* SetEvent(ghEvents[0]); oldProcessId = switchedProcessId
WinEventProcSetEvent ==
  /\ Alive
  /\ mpc = "setEvent"
  /\ ghEvents' = [ghEvents EXCEPT ![0] = TRUE]
  /\ oldProcessId' = switchedProcessId
  /\ mpc' = "loop"
  /\ UNCHANGED <<sessVars, mute, faults, regVars, addVars, queueVars,
                 switchedProcessId, hooked, mainExit, workVars, histVars>>

\* -------------------------------------------------------- WinMain, the end
\* GetMessage returns 0 (WM_QUIT) or -1: the message loop ends
MainLoopEnd ==
  /\ Alive
  /\ mpc = "loop"
  /\ mpc' = "unhook"
  /\ UNCHANGED <<sessVars, mute, faults, regVars, addVars, queueVars,
                 switchedProcessId, hooked, mainExit, oldProcessId, workVars,
                 ghEvents, histVars>>

\* if (hWinEventHook) UnhookWinEvent(hWinEventHook)
MainUnhook ==
  /\ Alive
  /\ mpc = "unhook"
  /\ hooked' = FALSE
  /\ mpc' = "quit"
  /\ UNCHANGED <<sessVars, mute, faults, regVars, addVars, queueVars,
                 switchedProcessId, mainExit, oldProcessId, workVars, ghEvents,
                 histVars>>

\* SetEvent(ghEvents[1])
MainSetQuit ==
  /\ Alive
  /\ mpc = "quit"
  /\ ghEvents' = [ghEvents EXCEPT ![1] = TRUE]
  /\ mpc' = "join"
  /\ UNCHANGED <<sessVars, mute, faults, regVars, addVars, queueVars,
                 switchedProcessId, hooked, mainExit, oldProcessId, workVars,
                 histVars>>

\* Variant: WinMain returns without waiting for the audio thread
MainJoin_NoWait ==
  /\ Alive
  /\ mpc = "join"
  /\ mainExit' = 0
  /\ mpc' = "done"
  /\ UNCHANGED <<sessVars, mute, faults, regVars, addVars, queueVars,
                 switchedProcessId, hooked, oldProcessId, workVars, ghEvents,
                 histVars>>

\* WaitForSingleObject(hAudioThread, INFINITE); DeleteCriticalSection; return 0
MainJoin ==
  /\ Alive
  /\ mpc = "join"
  /\ exitCode # -1
  /\ mainExit' = 0
  /\ mpc' = "done"
  /\ UNCHANGED <<sessVars, mute, faults, regVars, addVars, queueVars,
                 switchedProcessId, hooked, oldProcessId, workVars, ghEvents,
                 histVars>>

\* ------------------------------------------------------------------- Next
\* Steps of AddAudioSession on either thread
AddStep ==
  \/ \E t \in Threads : AddGet(t)
  \/ \E t \in Threads : AddInsertId(t)
  \/ \E t \in Threads : AddRegister(t)

\* Startup of the audio thread up to the barrier
StartupStep ==
  \/ AudioInit
  \/ AudioRegisterNotification
  \/ AudioGetEnumerator
  \/ AudioEnumStep
  \/ AudioEnumAfterAdd
  \/ AudioAfterLoop
  \/ Barrier

\* WinMain outside the callback
MainStep ==
  \/ MainInit
  \/ MainWaitReady
  \/ MainSetHook
  \/ MainLoopEnd
  \/ MainUnhook
  \/ MainSetQuit
  \/ MainJoin

\* The program with the sessions that exist at its start: focus events are
\* delivered and drained, no session is created while it runs.
Next ==
  \/ AddStep
  \/ StartupStep
  \/ MainStep
  \/ AudioWait
  \/ AudioEmpty
  \/ AudioSwitch
  \/ AudioPop
  \/ AudioCleanup
  \/ \E p \in ArgPids : WinEventProcEnter(p)
  \/ WinEventProcPushEnd
  \/ WinEventProcSetEvent

Spec == Init /\ [][Next]_vars

\* The state in which the program starts to run after a startup without
\* failure: every session that existed is registered, both threads have
\* passed the barrier, the hook is installed, the audio thread waits.
RunningStart(k) ==
  /\ created = 1..k
  /\ mute = [s \in Sessions |-> FALSE]
  /\ pendingCb = {}
  /\ notifRegistered = TRUE
  /\ faults = 0
  /\ late = 0
  /\ disconnected = {}
  /\ lastRun = NoRun
  /\ sessionsList = SetToBag({<<SessionPid(s), s>> : s \in 1..k})
  /\ sessionIdSet = {FullSessionId(s) : s \in 1..k}
  /\ eventQueue = << >>
  /\ oldProcessId = 0
  /\ ghEvents = [i \in 0..1 |-> FALSE]
  /\ apc = [t \in Threads |-> "idle"]
  /\ asess = [t \in Threads |-> IF t = "enum" /\ k > 0 THEN k ELSE NoSession]
  /\ aret = [t \in Threads |-> "S_OK"]
  /\ addRefs = [s \in Sessions |-> IF s \in 1..k THEN 1 ELSE 0]
  /\ released = [s \in Sessions |-> 0]
  /\ aentry = [t \in Threads |-> NoEntry]
  /\ completed = 1..k
  /\ wpc = "wait"
  /\ enumSnap = SetToSeq(1..k)
  /\ enumI = k
  /\ whr = "S_OK"
  /\ processIds = <<0, 0>>
  /\ exitCode = -1
  /\ mpc = "loop"
  /\ switchedProcessId = 0
  /\ pushRace = "none"
  /\ hooked = TRUE
  /\ mainExit = -1
  /\ nPushed = 0
  /\ unapplied = << >>
  /\ lastCalls = {}
  /\ batch = NoBatch

InitRunning == \E k \in 0..NumSessions : RunningStart(k)

\* The steps of the running program: the callback, the wait loop, shutdown
RunningNext ==
  \/ \E p \in ArgPids : WinEventProcEnter(p)
  \/ WinEventProcPushEnd
  \/ WinEventProcSetEvent
  \/ AudioWait
  \/ AudioEmpty
  \/ AudioSwitch
  \/ AudioPop
  \/ AudioCleanup
  \/ MainLoopEnd
  \/ MainUnhook
  \/ MainSetQuit
  \/ MainJoin

\* The running program with the audio thread scheduled fairly: a step of
\* its wait loop or of its cleanup that stays possible is eventually taken.
SpecFair ==
  /\ InitRunning
  /\ [][RunningNext]_vars
  /\ WF_vars(AudioWait)
  /\ WF_vars(AudioEmpty)
  /\ WF_vars(AudioSwitch)
  /\ WF_vars(AudioPop)
  /\ WF_vars(AudioCleanup)

\* The session tracker: sessions are created while the program runs and
\* OnSessionCreated runs concurrently with the audio thread; no foreground
\* event is delivered.
TrackerNext ==
  \/ \E s \in Sessions : CreateSession(s)
  \/ \E s \in Sessions : OnSessionCreated(s)
  \/ OnSessionCreatedReturn
  \/ AddStep
  \/ StartupStep
  \/ MainStep
  \/ AudioWait
  \/ AudioCleanup

SpecTracker == Init /\ [][TrackerNext]_vars

\* ------------------------------------------- SwitchMuteStates on its own
\* SwitchMuteStates as a function of its arguments and of the registry: the
\* registry holds any of the sessions under any keys, with any mute states,
\* and no thread of the program runs.
InitSwitch ==
  /\ \E R \in SUBSET Sessions : \E key \in [Sessions -> ArgPids] :
        /\ created = R
        /\ sessionsList = SetToBag({<<key[s], s>> : s \in R})
        /\ sessionIdSet = {FullSessionId(s) : s \in R}
        /\ addRefs = [s \in Sessions |-> IF s \in R THEN 1 ELSE 0]
  /\ mute \in [Sessions -> BOOLEAN]
  /\ pendingCb = {}
  /\ notifRegistered = FALSE
  /\ faults = 0
  /\ late = 0
  /\ disconnected = {}
  /\ lastRun = NoRun
  /\ eventQueue = << >>
  /\ oldProcessId = 0
  /\ ghEvents = [i \in 0..1 |-> FALSE]
  /\ apc = [t \in Threads |-> "idle"]
  /\ asess = [t \in Threads |-> NoSession]
  /\ aret = [t \in Threads |-> "S_OK"]
  /\ released = [s \in Sessions |-> 0]
  /\ aentry = [t \in Threads |-> NoEntry]
  /\ completed = {}
  /\ wpc = "notStarted"
  /\ enumSnap = << >>
  /\ enumI = 0
  /\ whr = "S_OK"
  /\ processIds = <<0, 0>>
  /\ exitCode = -1
  /\ mpc = "init"
  /\ switchedProcessId = 0
  /\ pushRace = "none"
  /\ hooked = FALSE
  /\ mainExit = -1
  /\ nPushed = 0
  /\ unapplied = << >>
  /\ lastCalls = {}
  /\ batch = NoBatch

\* One call SwitchMuteStates(oldProc, newProc) in which the QueryInterface
\* and SetMute calls end as out says
CallSwitchMuteStatesWith(oldProc, newProc, out) ==
  /\ wpc = "notStarted"
  /\ mpc = "init"
  /\ faults + Cardinality(NotOk(out)) <= MaxFaults
  /\ faults' = faults + Cardinality(NotOk(out))
  /\ mute' = SwitchMuteStates(sessionsList, mute, oldProc, newProc, out)
  /\ UNCHANGED <<sessVars, regVars, addVars, queueVars, mainVars, workVars,
                 ghEvents, histVars>>

\* One call SwitchMuteStates(oldProc, newProc)
CallSwitchMuteStates(oldProc, newProc) ==
  \E out \in [MuteCalls(sessionsList, oldProc, newProc) -> CallOutcomes] :
     CallSwitchMuteStatesWith(oldProc, newProc, out)

SwitchNext == \E oldProc, newProc \in ArgPids : CallSwitchMuteStates(oldProc, newProc)

SpecSwitch == InitSwitch /\ [][SwitchNext]_vars

\* ------------------------------ the program of src/unnamed/part_000
\* It has no event queue and no processing step: the hook callback applies
\* the switch itself. The tracker thread has filled the registry (each
\* session under the process id it reports) and waits for the quit signal;
\* the main thread runs the message loop with the hook installed.
InitDirect ==
  /\ \E R \in SUBSET Sessions :
        /\ created = R
        /\ sessionsList = SetToBag({<<SessionPid(s), s>> : s \in R})
        /\ sessionIdSet = {FullSessionId(s) : s \in R}
        /\ addRefs = [s \in Sessions |-> IF s \in R THEN 1 ELSE 0]
  /\ mute \in [Sessions -> BOOLEAN]
  /\ pendingCb = {}
  /\ notifRegistered = TRUE
  /\ faults = 0
  /\ late = 0
  /\ disconnected = {}
  /\ lastRun = NoRun
  /\ eventQueue = << >>
  /\ oldProcessId = 0
  /\ ghEvents = [i \in 0..1 |-> FALSE]
  /\ apc = [t \in Threads |-> "idle"]
  /\ asess = [t \in Threads |-> NoSession]
  /\ aret = [t \in Threads |-> "S_OK"]
  /\ released = [s \in Sessions |-> 0]
  /\ aentry = [t \in Threads |-> NoEntry]
  /\ completed = {}
  /\ wpc = "wait"
  /\ enumSnap = << >>
  /\ enumI = 0
  /\ whr = "S_OK"
  /\ processIds = <<0, 0>>
  /\ exitCode = -1
  /\ mpc = "loop"
  /\ switchedProcessId = 0
  /\ pushRace = "none"
  /\ hooked = TRUE
  /\ mainExit = -1
  /\ nPushed = 0
  /\ unapplied = << >>
  /\ lastCalls = {}
  /\ batch = NoBatch

\* WinEventProc of part_000 up to its comparison: the foreground window
\* belongs to process p; the callback returns when p == oldProcessId
DirectWinEventProcEnter(p) ==
  /\ mpc = "loop"
  /\ hooked
  /\ switchedProcessId' = p
  /\ mpc' = IF p = oldProcessId THEN "loop" ELSE "switching"
  /\ UNCHANGED <<sessVars, mute, faults, regVars, addVars, queueVars,
                 oldProcessId, hooked, mainExit, workVars, ghEvents, histVars>>

\* SwitchMuteStates(oldProcessId, switchedProcessId); oldProcessId =
\* switchedProcessId, both still inside WinEventProc
DirectWinEventProcSwitch ==
  /\ mpc = "switching"
  /\ LET out == [c \in MuteCalls(sessionsList, oldProcessId, switchedProcessId)
                    |-> "ok"]
     IN /\ mute' = SwitchMuteStates(sessionsList, mute, oldProcessId,
                                    switchedProcessId, out)
        /\ lastCalls' = {<<c[1], c[2], out[c]>> : c \in DOMAIN out}
  /\ oldProcessId' = switchedProcessId
  /\ mpc' = "loop"
  /\ UNCHANGED <<sessVars, faults, regVars, addVars, queueVars,
                 switchedProcessId, hooked, mainExit, workVars, ghEvents,
                 unapplied, batch>>

DirectNext ==
  \/ \E p \in Pids : DirectWinEventProcEnter(p)
  \/ DirectWinEventProcSwitch

SpecDirect == InitDirect /\ [][DirectNext]_vars

\* --------------- the first program of src/EventHookProcessID.cpp (1-504)
\* It has no registry and no queue: AddAudioSession and WinEventProc print.
\* ghEvents[0] stands for hAudioThreadEvent, its only (auto-reset) event.
firstUnused == <<created, pendingCb, late, disconnected, lastRun, mute, regVars, addVars, queueVars,
                 oldProcessId, processIds, histVars>>

\* WinMain: CreateEvent, CreateThread
FirstMainInit ==
  /\ Alive
  /\ mpc = "init"
  /\ \/ /\ Fault
        /\ \E code \in {1, 2} : mainExit' = code
        /\ mpc' = "done"
        /\ UNCHANGED wpc
     \/ /\ mpc' = "hook"
        /\ wpc' = "init"
        /\ UNCHANGED <<mainExit, faults>>
  /\ UNCHANGED <<firstUnused, notifRegistered, switchedProcessId, hooked,
                 enumSnap, enumI, whr, exitCode, ghEvents>>

\* SetWinEventHook, before the startup wait; its result is not checked here
FirstMainSetHook ==
  /\ Alive
  /\ mpc = "hook"
  /\ \/ Fault /\ hooked' = FALSE
     \/ hooked' = TRUE /\ UNCHANGED faults
  /\ mpc' = "waitReady"
  /\ UNCHANGED <<firstUnused, notifRegistered, switchedProcessId, mainExit,
                 wpc, enumSnap, enumI, whr, exitCode, ghEvents>>

\* WaitForMultipleObjects(2, {hAudioThreadEvent, hAudioThread}, false, 20000);
\* return 3 unless the event ended the wait
FirstMainWaitReady ==
  /\ Alive
  /\ mpc = "waitReady"
  /\ \/ /\ ghEvents[0]
        /\ ghEvents' = [ghEvents EXCEPT ![0] = FALSE]
        /\ mpc' = "loop"
        /\ UNCHANGED mainExit
     \/ /\ ~ghEvents[0]
        /\ mainExit' = 3
        /\ mpc' = "done"
        /\ UNCHANGED ghEvents
  /\ UNCHANGED <<firstUnused, notifRegistered, faults, switchedProcessId, hooked,
                 wpc, enumSnap, enumI, whr, exitCode>>

\* WinEventProc: GetWindowThreadProcessId and printf
FirstWinEventProc(p) ==
  /\ Alive
  /\ mpc = "loop"
  /\ hooked
  /\ switchedProcessId' = p
  /\ UNCHANGED <<firstUnused, notifRegistered, faults, mpc, hooked, mainExit,
                 wpc, enumSnap, enumI, whr, exitCode, ghEvents>>

\* The message loop ends; SetEvent(hAudioThreadEvent)
FirstMainLoopEnd ==
  /\ Alive
  /\ mpc = "loop"
  /\ ghEvents' = [ghEvents EXCEPT ![0] = TRUE]
  /\ mpc' = "unhook"
  /\ UNCHANGED <<firstUnused, notifRegistered, faults, switchedProcessId, hooked,
                 mainExit, wpc, enumSnap, enumI, whr, exitCode>>

\* if (hWinEventHook) UnhookWinEvent(hWinEventHook); return 0
FirstMainUnhook ==
  /\ Alive
  /\ mpc = "unhook"
  /\ hooked' = FALSE
  /\ mainExit' = 0
  /\ mpc' = "done"
  /\ UNCHANGED <<firstUnused, notifRegistered, faults, switchedProcessId, wpc,
                 enumSnap, enumI, whr, exitCode, ghEvents>>

\* AudioThreadRoutine: OpenEvent, CoInitializeEx, GetIAudioSessionManager2
\* ((DWORD) E_FAIL is written as the HRESULT it is, 0x80004005 signed)
FirstAudioInit ==
  /\ Alive
  /\ wpc = "init"
  /\ \/ Fault /\ \E code \in {-2147467259, 2, 3} : ThreadExit(code)
     \/ wpc' = "regNotif" /\ UNCHANGED <<exitCode, faults>>
  /\ UNCHANGED <<firstUnused, notifRegistered, mpc, switchedProcessId, hooked,
                 mainExit, enumSnap, enumI, whr, ghEvents>>

\* pMgr->RegisterSessionNotification(pCallback)
FirstAudioRegisterNotification ==
  /\ Alive
  /\ wpc = "regNotif"
  /\ \/ Fault /\ ThreadExit(4) /\ UNCHANGED notifRegistered
     \/ notifRegistered' = TRUE /\ wpc' = "getEnum" /\ UNCHANGED <<exitCode, faults>>
  /\ UNCHANGED <<firstUnused, mpc, switchedProcessId, hooked, mainExit, enumSnap,
                 enumI, whr, ghEvents>>

\* GetSessionEnumerator and GetCount; a failure unregisters the notification
FirstAudioGetEnumerator ==
  /\ Alive
  /\ wpc = "getEnum"
  /\ \/ /\ Fault
        /\ \E code \in {5, 6} : ThreadExit(code)
        /\ notifRegistered' = FALSE
        /\ UNCHANGED <<enumSnap, enumI, whr>>
     \/ /\ enumSnap' = SetToSeq(created)
        /\ enumI' = 0
        /\ whr' = "S_OK"
        /\ wpc' = "loop"
        /\ UNCHANGED <<exitCode, notifRegistered, faults>>
  /\ UNCHANGED <<firstUnused, mpc, switchedProcessId, hooked, mainExit, ghEvents>>

\* One turn of the enumeration loop: GetSession or QueryInterface fails and
\* the loop breaks, or AddAudioSession (which prints the session's
\* properties) sets hr and the loop goes on whatever it returned
FirstAudioEnumStep ==
  /\ Alive
  /\ wpc = "loop"
  /\ IF enumI < Len(enumSnap)
     THEN \/ /\ Fault
             /\ whr' = "E_FAIL"
             /\ wpc' = "afterLoop"
             /\ UNCHANGED enumI
          \/ /\ \/ whr' = "S_OK" /\ UNCHANGED faults
                \/ whr' = "E_GET" /\ Fault
             /\ enumI' = enumI + 1
             /\ UNCHANGED wpc
     ELSE /\ wpc' = "afterLoop"
          /\ UNCHANGED <<whr, enumI, faults>>
  /\ UNCHANGED <<firstUnused, notifRegistered, mpc, switchedProcessId, hooked,
                 mainExit, enumSnap, exitCode, ghEvents>>

\* After the loop: return 7 (the notification stays registered), or
\* SetEvent(hEvent) as ready signal
FirstAudioAfterLoop ==
  /\ Alive
  /\ wpc = "afterLoop"
  /\ IF whr # "S_OK"
     THEN ThreadExit(7) /\ UNCHANGED ghEvents
     ELSE /\ ghEvents' = [ghEvents EXCEPT ![0] = TRUE]
          /\ wpc' = "sleep"
          /\ UNCHANGED exitCode
  /\ UNCHANGED <<firstUnused, notifRegistered, faults, mpc, switchedProcessId,
                 hooked, mainExit, enumSnap, enumI, whr>>

\* Sleep(1000); WaitForSingleObject(hEvent, INFINITE); unregister; return hr
FirstAudioWait ==
  /\ Alive
  /\ wpc = "sleep"
  /\ ghEvents[0]
  /\ ghEvents' = [ghEvents EXCEPT ![0] = FALSE]
  /\ notifRegistered' = FALSE
  /\ ThreadExit(0)
  /\ UNCHANGED <<firstUnused, faults, mpc, switchedProcessId, hooked, mainExit,
                 enumSnap, enumI, whr>>

FirstNext ==
  \/ FirstMainInit
  \/ FirstMainSetHook
  \/ FirstMainWaitReady
  \/ \E p \in Pids : FirstWinEventProc(p)
  \/ FirstMainLoopEnd
  \/ FirstMainUnhook
  \/ FirstAudioInit
  \/ FirstAudioRegisterNotification
  \/ FirstAudioGetEnumerator
  \/ FirstAudioEnumStep
  \/ FirstAudioAfterLoop
  \/ FirstAudioWait

SpecFirst == Init /\ [][FirstNext]_vars

\* --------------------------- CAudioSessionEvents::OnSessionDisconnected
\* Variant: the handler takes the session out of sessionsList and sessionIdSet
OnSessionDisconnected_Purge(s) ==
  /\ Alive
  /\ Entries(sessionsList, s) >= 1
  /\ released[s] = 0
  /\ s \notin disconnected
  /\ disconnected' = disconnected \cup {s}
  /\ sessionsList' = [e \in DOMAIN sessionsList \ {<<SessionPid(s), s>>} |-> sessionsList[e]]
  /\ sessionIdSet' = sessionIdSet \ {FullSessionId(s)}
  /\ UNCHANGED <<created, pendingCb, notifRegistered, late, lastRun, mute, faults, addRefs,
                 released, addVars, queueVars, mainVars, workVars, ghEvents,
                 histVars>>

\* The audio subsystem reports the end of session s to the listener that
\* AddAudioSession registered for it: the handler prints the reason and
\* returns S_OK
OnSessionDisconnected(s) ==
  /\ Alive
  /\ Entries(sessionsList, s) >= 1
  /\ released[s] = 0
  /\ s \notin disconnected
  /\ disconnected' = disconnected \cup {s}
  /\ UNCHANGED <<created, pendingCb, notifRegistered, late, lastRun, mute, faults, regVars,
                 addVars, queueVars, mainVars, workVars, ghEvents, histVars>>

\* The session tracker with sessions that end while the program runs
DisconnectNext ==
  \/ TrackerNext
  \/ \E s \in Sessions : OnSessionDisconnected(s)

SpecDisconnect == Init /\ [][DisconnectNext]_vars

\* ------------------- AutoMuteRoutine of src/EventHookProcessID_APC.cpp
\* The APC variant keeps no registry: every call of AutoMuteRoutine
\* enumerates the sessions of the session manager again.

\* The sessions the session manager can enumerate: those of Sessions and
\* two more, so that a system-sounds session (session 4) and a session that
\* follows it in the enumerator (session 5) are among them
APCSessions == 1..(NumSessions + 2)

\* IAudioSessionControl2::IsSystemSoundsSession answers S_OK for these
IsSystemSoundsSession(s) == SessionPid(s) = 0

\* Variant: a cross-process session is treated like any other
SkipsCrossProcess_Never(s) == FALSE

\* if(hr == AUDCLNT_S_NO_SINGLE_PROCESS) after GetProcessId: the session is
\* skipped
SkipsCrossProcess(s) == GetProcessIdResult(s) = "AUDCLNT_S_NO_SINGLE_PROCESS"

\* The calls AutoMuteRoutine makes on a session of the enumerator
AutoMuteSteps == {"GetSession", "QueryInterface2", "IsSystemSoundsSession",
                  "GetProcessId", "QueryInterfaceVolume", "SetMute"}

\* The call that fails in one run of AutoMuteRoutine, when it is reached:
\* none, one on the session manager or the enumerator (session 0), or one
\* on a session
NoFailure == <<0, "none">>
APCFailures == {NoFailure, <<0, "GetSessionEnumerator">>, <<0, "GetCount">>}
                 \cup (APCSessions \X AutoMuteSteps)

\* The HRESULT of a failing call
FailureCode(step) == "E_" \o step

\* Variant: the enumerator is not released
ReleaseEnumerator_Leak(held) == held

\* pEnum -> Release()
ReleaseEnumerator(held) == held \ {<<"pEnum", 0>>}

\* The loop over the enumerator: rest are the sessions still to visit (in
\* ascending index), m the mute flags, hr the local hr, calls the SetMute
\* attempts made so far, seen the sessions GetSession was called for, held
\* the interface pointers obtained and not released
RECURSIVE AutoMuteLoop(_, _, _, _, _, _, _, _, _)
AutoMuteLoop(rest, m, hr, calls, seen, held, newProcId, prevProcId, fail) ==
  IF rest = {}
  THEN [hr |-> hr, mute |-> m, calls |-> calls, failed |-> FALSE, visited |-> seen,
        held |-> ReleaseEnumerator(held)]
  ELSE
    LET s == CHOOSE x \in rest : \A y \in rest : x <= y
        fails(step) == fail = <<s, step>>
        \* break, then pEnum->Release() after the loop
        break(step, c, h) ==
          [hr |-> FailureCode(step), mute |-> m, calls |-> c, failed |-> TRUE,
           visited |-> seen \cup {s}, held |-> ReleaseEnumerator(h)]
        continue(m2, c, h) ==
          AutoMuteLoop(rest \ {s}, m2, "S_OK", c, seen \cup {s}, h, newProcId, prevProcId, fail)
        \* after GetSession
        h1 == held \cup {<<"pCtrl", s>>}
        \* after QueryInterface<IAudioSessionControl2> and pCtrl->Release()
        h2 == (h1 \cup (IF fails("QueryInterface2") THEN {} ELSE {<<"pCtrl2", s>>}))
                 \ {<<"pCtrl", s>>}
        \* after pCtrl2->Release()
        h3 == h2 \ {<<"pCtrl2", s>>}
        \* after QueryInterface<ISimpleAudioVolume> and pCtrl2->Release()
        h4 == (h2 \cup (IF fails("QueryInterfaceVolume") THEN {} ELSE {<<"pVol", s>>}))
                 \ {<<"pCtrl2", s>>}
        \* after SetMute and pVol->Release()
        h5 == h4 \ {<<"pVol", s>>}
        setMute(b) ==
          IF fails("QueryInterfaceVolume") THEN break("QueryInterfaceVolume", calls, h4)
          ELSE IF fails("SetMute")
               THEN break("SetMute", calls \cup {<<s, b, "failed">>}, h5)
               ELSE continue([m EXCEPT ![s] = b], calls \cup {<<s, b, "ok">>}, h5)
    IN IF fails("GetSession") THEN break("GetSession", calls, held)
       ELSE IF fails("QueryInterface2") THEN break("QueryInterface2", calls, h2)
       ELSE IF fails("IsSystemSoundsSession") THEN break("IsSystemSoundsSession", calls, h3)
       ELSE IF IsSystemSoundsSession(s) THEN continue(m, calls, h3)
       ELSE IF fails("GetProcessId") THEN break("GetProcessId", calls, h3)
       ELSE IF SkipsCrossProcess(s) THEN continue(m, calls, h3)
       ELSE IF SessionPid(s) = newProcId THEN setMute(FALSE)
       ELSE IF SessionPid(s) = prevProcId THEN setMute(TRUE)
       ELSE continue(m, calls, h3)

\* AutoMuteRoutine(pSessionMgr, newProcId, prevProcId) on the sessions S with
\* mute flags m; mgr is FALSE for a null pSessionMgr. The process ids are
\* tested first, the pointer after them.
AutoMuteRoutine(mgr, newProcId, prevProcId, S, m, fail) ==
  LET return(hr, f, h) == [hr |-> hr, mute |-> m, calls |-> {}, failed |-> f,
                           visited |-> {}, held |-> h]
  IN IF newProcId = 0 \/ prevProcId = 0 THEN return("E_INVALIDARG", FALSE, {})
     ELSE IF newProcId = prevProcId THEN return("S_FALSE", FALSE, {})
     ELSE IF ~mgr THEN return("E_POINTER", FALSE, {})
     ELSE IF fail = <<0, "GetSessionEnumerator">>
          THEN return(FailureCode("GetSessionEnumerator"), TRUE, {})
     ELSE IF fail = <<0, "GetCount">>
          THEN return(FailureCode("GetCount"), TRUE, ReleaseEnumerator({<<"pEnum", 0>>}))
     ELSE AutoMuteLoop(S, m, "S_OK", {}, {}, {<<"pEnum", 0>>}, newProcId, prevProcId, fail)

\* The session manager holds any of the sessions, with any mute states
InitAPC ==
  /\ created \in SUBSET APCSessions
  /\ mute \in {m \in [APCSessions -> BOOLEAN] : \A s \in APCSessions \ created : ~m[s]}
  /\ sessionsList = EmptyBag
  /\ sessionIdSet = {}
  /\ addRefs = [s \in Sessions |-> 0]
  /\ pendingCb = {}
  /\ notifRegistered = FALSE
  /\ faults = 0
  /\ late = 0
  /\ disconnected = {}
  /\ lastRun = NoRun
  /\ eventQueue = << >>
  /\ oldProcessId = 0
  /\ ghEvents = [i \in 0..1 |-> FALSE]
  /\ apc = [t \in Threads |-> "idle"]
  /\ asess = [t \in Threads |-> NoSession]
  /\ aret = [t \in Threads |-> "S_OK"]
  /\ released = [s \in Sessions |-> 0]
  /\ aentry = [t \in Threads |-> NoEntry]
  /\ completed = {}
  /\ wpc = "notStarted"
  /\ enumSnap = << >>
  /\ enumI = 0
  /\ whr = "S_OK"
  /\ processIds = <<0, 0>>
  /\ exitCode = -1
  /\ mpc = "init"
  /\ switchedProcessId = 0
  /\ pushRace = "none"
  /\ hooked = FALSE
  /\ mainExit = -1
  /\ nPushed = 0
  /\ unapplied = << >>
  /\ lastCalls = {}
  /\ batch = NoBatch

\* The call AutoMuteRoutine(pSessionMgr, newProcId, prevProcId) in which the
\* call fail names fails if the routine reaches it; whr takes the HRESULT
\* the routine returns
CallAutoMuteRoutineWith(mgr, newProcId, prevProcId, fail) ==
  LET r == AutoMuteRoutine(mgr, newProcId, prevProcId, created, mute, fail)
  IN /\ wpc = "notStarted"
     /\ mpc = "init"
     /\ r.failed => faults < MaxFaults
     /\ faults' = faults + (IF r.failed THEN 1 ELSE 0)
     /\ mute' = r.mute
     /\ whr' = r.hr
     /\ lastCalls' = r.calls
     /\ lastRun' = [called |-> TRUE, mgr |-> mgr, newProcId |-> newProcId,
                    prevProcId |-> prevProcId, fail |-> fail, failed |-> r.failed,
                    before |-> mute, visited |-> r.visited, held |-> r.held]
     /\ UNCHANGED <<created, pendingCb, notifRegistered, late, disconnected, regVars,
                    addVars, queueVars, mainVars, wpc, enumSnap, enumI, processIds,
                    exitCode, ghEvents, unapplied, batch>>

\* The call, with the failing call chosen among those on the session manager,
\* the enumerator and the sessions that exist
CallAutoMuteRoutine(mgr, newProcId, prevProcId) ==
  \E fail \in {f \in APCFailures : f[1] = 0 \/ f[1] \in created} :
     CallAutoMuteRoutineWith(mgr, newProcId, prevProcId, fail)

\* One call per behaviour, with any arguments
APCNext ==
  /\ ~lastRun.called
  /\ \E mgr \in BOOLEAN : \E newProcId, prevProcId \in ArgPids :
        CallAutoMuteRoutine(mgr, newProcId, prevProcId)

SpecAPC == InitAPC /\ [][APCNext]_vars

\* ------------------- the reference count of the CAudioSessionEvents listener
RECURSIVE SumOver(_, _)
SumOver(f, S) ==
  IF S = {} THEN 0
  ELSE LET x == CHOOSE y \in S : TRUE
       IN f[x] + SumOver(f, S \ {x})

\* AudioThreadRoutine has run one of its unwinds, each of which ends with
\* pAudioEvents -> Release(): those before return 5, 6 and 7 and the one
\* after the wait loop
ListenerReleased == wpc = "done" /\ exitCode \in {0, 5, 6, 7}

\* _cRef of audioSessionEvents: 1 from the constructor, one more for every
\* RegisterAudioSessionNotification that succeeded (AddAudioSession takes its
\* reference on the session with each), one less for every
\* UnregisterAudioSessionNotification of the loops over sessionsList (each
\* with a Release of the session), one less for pAudioEvents -> Release()
cRef ==
  1 + SumOver(addRefs, Sessions) - SumOver(released, Sessions)
    - (IF ListenerReleased THEN 1 ELSE 0)

\* ------------------- the running program with sessions created meanwhile
\* One session is registered at startup; focus events are delivered and
\* drained while further sessions are created and OnSessionCreated runs
\* concurrently with the audio thread.
LiveNext ==
  \/ RunningNext
  \/ \E s \in Sessions : CreateSession(s)
  \/ \E s \in Sessions : OnSessionCreated(s)
  \/ OnSessionCreatedReturn
  \/ AddStep

SpecLive == RunningStart(1) /\ [][LiveNext]_vars

\* ----------- the APC variant of src/EventHookProcessID_APC.cpp at run time
\* WinEventProc on the main thread queues APCAutoMuteRoutine to the APC
\* thread with the address of its local switchedProcessId as argument; the
\* APC thread runs the queued calls in order from its alertable wait.
\* eventQueue stands for the APC queue of the thread: <<n, p>> is the call
\* queued by the n-th WinEventProc invocation, whose window belongs to
\* process p; oldProcessId stands for gPrevProcessId, processIds for
\* <<prevProcId, newProcId>> of APCAutoMuteRoutine (prevProcId as last
\* assigned), wpc = "done" for the end of the APC thread (gbEndProgram set).
InitAPCThread ==
  /\ created \in SUBSET APCSessions
  /\ mute = [s \in APCSessions |-> FALSE]
  /\ sessionsList = EmptyBag
  /\ sessionIdSet = {}
  /\ addRefs = [s \in Sessions |-> 0]
  /\ pendingCb = {}
  /\ notifRegistered = FALSE
  /\ faults = 0
  /\ late = 0
  /\ disconnected = {}
  /\ lastRun = NoRun
  /\ eventQueue = << >>
  /\ oldProcessId = 0
  /\ ghEvents = [i \in 0..1 |-> FALSE]
  /\ apc = [t \in Threads |-> "idle"]
  /\ asess = [t \in Threads |-> NoSession]
  /\ aret = [t \in Threads |-> "S_OK"]
  /\ released = [s \in Sessions |-> 0]
  /\ aentry = [t \in Threads |-> NoEntry]
  /\ completed = {}
  /\ wpc = "wait"
  /\ enumSnap = << >>
  /\ enumI = 0
  /\ whr = "S_OK"
  /\ processIds = <<0, 0>>
  /\ exitCode = -1
  /\ mpc = "loop"
  /\ switchedProcessId = 0
  /\ pushRace = "none"
  /\ hooked = TRUE
  /\ mainExit = -1
  /\ nPushed = 0
  /\ unapplied = << >>
  /\ lastCalls = {}
  /\ batch = NoBatch

apcThreadUnused == <<created, pendingCb, notifRegistered, late, disconnected, lastRun,
                     regVars, addVars, pushRace, ghEvents, enumSnap, enumI, unapplied,
                     batch, mainExit>>

\* WinEventProc is called for a window of process p: if(gbEndProgram)
\* PostQuitMessage and return, else GetWindowThreadProcessId
APCWinEventProcEnter(p) ==
  /\ mpc = "loop"
  /\ hooked
  /\ nPushed < MaxEvents
  /\ IF wpc = "done"
     THEN /\ mpc' = "unhook"
          /\ UNCHANGED switchedProcessId
     ELSE /\ switchedProcessId' = p
          /\ mpc' = "queueAPC"
  /\ UNCHANGED <<apcThreadUnused, mute, faults, eventQueue, nPushed, oldProcessId,
                 hooked, wpc, whr, processIds, exitCode, lastCalls>>

\* QueueUserAPC(APCAutoMuteRoutine, hAPCThread, (ULONG_PTR) &switchedProcessId)
APCWinEventProcQueue ==
  /\ mpc = "queueAPC"
  /\ \/ /\ Fault
        /\ mpc' = "unhook"
        /\ UNCHANGED <<eventQueue, nPushed>>
     \/ /\ eventQueue' = Append(eventQueue, <<nPushed + 1, switchedProcessId>>)
        /\ nPushed' = nPushed + 1
        /\ mpc' = "return"
        /\ UNCHANGED faults
  /\ UNCHANGED <<apcThreadUnused, mute, switchedProcessId, oldProcessId, hooked, wpc,
                 whr, processIds, exitCode, lastCalls>>

\* WinEventProc returns: its local switchedProcessId ends
APCWinEventProcReturn ==
  /\ mpc = "return"
  /\ mpc' = "loop"
  /\ UNCHANGED <<apcThreadUnused, mute, faults, eventQueue, nPushed, switchedProcessId,
                 oldProcessId, hooked, wpc, whr, processIds, exitCode, lastCalls>>

\* What *((DWORD *) pData) yields for the call queued by invocation n: the
\* local of that invocation while the invocation has not returned; after
\* that the pointer dangles and the read can yield any value
ReadThroughArgument(n) ==
  IF n = nPushed /\ mpc = "return" THEN {switchedProcessId} ELSE ArgPids

\* The APC thread runs the next queued APCAutoMuteRoutine: it reads
\* newProcId through its argument, returns if it equals gPrevProcessId, else
\* updates gPrevProcessId and calls AutoMuteRoutine; a result other than
\* S_OK sets gbEndProgram and ends the thread
APCAutoMuteRoutine ==
  /\ wpc = "wait"
  /\ eventQueue # << >>
  /\ eventQueue' = Tail(eventQueue)
  /\ \E newProcId \in ReadThroughArgument(Head(eventQueue)[1]) :
       /\ processIds' = <<IF newProcId = oldProcessId THEN processIds[1] ELSE oldProcessId,
                          newProcId>>
       /\ IF newProcId = oldProcessId
          THEN UNCHANGED <<oldProcessId, mute, whr, lastCalls, faults, wpc, exitCode>>
          ELSE /\ oldProcessId' = newProcId
               /\ \E fail \in {f \in APCFailures : f[1] = 0 \/ f[1] \in created} :
                    LET r == AutoMuteRoutine(TRUE, newProcId, oldProcessId, created, mute, fail)
                    IN /\ r.failed => faults < MaxFaults
                       /\ faults' = faults + (IF r.failed THEN 1 ELSE 0)
                       /\ mute' = r.mute
                       /\ whr' = r.hr
                       /\ lastCalls' = r.calls
                       /\ IF r.hr # "S_OK"
                          THEN wpc' = "done" /\ exitCode' = 1
                          ELSE UNCHANGED <<wpc, exitCode>>
  /\ UNCHANGED <<apcThreadUnused, nPushed, switchedProcessId, hooked, mpc>>

\* The message loop ends; UnhookWinEvent
APCMainLoopEnd ==
  /\ mpc \in {"loop", "unhook"}
  /\ hooked
  /\ hooked' = FALSE
  /\ mpc' = "quit"
  /\ UNCHANGED <<apcThreadUnused, mute, faults, eventQueue, nPushed, switchedProcessId,
                 oldProcessId, wpc, whr, processIds, exitCode, lastCalls>>

APCThreadNext ==
  \/ \E p \in ArgPids : APCWinEventProcEnter(p)
  \/ APCWinEventProcQueue
  \/ APCWinEventProcReturn
  \/ APCAutoMuteRoutine
  \/ APCMainLoopEnd

SpecAPCThread == InitAPCThread /\ [][APCThreadNext]_vars

\* ================================================================= claims
\* SwitchMuteStates(processIds.first, processIds.second) has just returned
AfterSwitch == wpc = "pop"

\* The step of the wait loop that calls SwitchMuteStates
SwitchStep == wpc = "switch" /\ wpc' = "pop"

Registered(s) == Entries(sessionsList, s) > 0

\* The SetMute calls that were really made (QueryInterface gave a volume control)
CallsMade == {c \in lastCalls : c[3] # "noVolume"}

NotDone(s, bMute) == \E o \in {"noVolume", "failed"} : <<s, bMute, o>> \in lastCalls

DistinctNonZero == /\ processIds[1] # 0
                   /\ processIds[2] # 0
                   /\ processIds[1] # processIds[2]

\* C1 as stated: for distinct non-zero A and B, after SwitchMuteStates(A, B)
\* returns every session registered under A is muted and every session
\* registered under B is unmuted; when B has no session no unmute call is made.
C1_AllMutedAllUnmuted ==
  (AfterSwitch /\ DistinctNonZero) =>
    /\ \A s \in EqualRange(sessionsList, processIds[1]) : mute[s]
    /\ \A s \in EqualRange(sessionsList, processIds[2]) : ~mute[s]
    /\ Count(sessionsList, processIds[2]) = 0 => {c \in CallsMade : ~c[2]} = {}

\* C1 amended: for distinct non-zero A and B, after SwitchMuteStates(A, B)
\* returns every session registered under A is muted and every session
\* registered under B is unmuted, except the sessions whose QueryInterface or
\* SetMute call failed; when B has no session no unmute call is made.
C1_MutedUnlessCallFailed ==
  (AfterSwitch /\ DistinctNonZero) =>
    /\ \A s \in EqualRange(sessionsList, processIds[1]) : mute[s] \/ NotDone(s, TRUE)
    /\ \A s \in EqualRange(sessionsList, processIds[2]) : ~mute[s] \/ NotDone(s, FALSE)
    /\ Count(sessionsList, processIds[2]) = 0 => {c \in CallsMade : ~c[2]} = {}

\* C1 witness: a call with sessions under both keys, all calls succeeding
C1_Witness ==
  /\ AfterSwitch /\ DistinctNonZero
  /\ EqualRange(sessionsList, processIds[1]) # {}
  /\ EqualRange(sessionsList, processIds[2]) # {}
  /\ \A c \in lastCalls : c[3] = "ok"
  /\ \A s \in EqualRange(sessionsList, processIds[1]) : mute[s]
  /\ \A s \in EqualRange(sessionsList, processIds[2]) : ~mute[s]

\* C2: SwitchMuteStates(A, B) makes no call on, and leaves the mute state of,
\* every registered session whose registry key is neither A nor B.
C2_OtherKeysUntouched ==
  [][SwitchStep =>
       \A e \in BagToSet(sessionsList) :
          e[1] \notin {processIds'[1], processIds'[2]} =>
             /\ mute'[e[2]] = mute[e[2]]
             /\ \A c \in lastCalls' : c[1] # e[2]]_vars

\* C2 witness: a call was made while a muted session sat under a third key
C2_Witness ==
  /\ AfterSwitch
  /\ lastCalls # {}
  /\ \E e \in BagToSet(sessionsList) :
        e[1] \notin {processIds[1], processIds[2]} /\ mute[e[2]]

\* C3 as stated: the worker applies the events in the order WinEventProc
\* pushed them, none dropped, merged or applied twice: the event each
\* SwitchMuteStates call gets is the oldest pushed event not yet applied.
C3_AppliedInPushOrder ==
  [][SwitchStep => (unapplied # << >> /\ processIds' = Head(unapplied))]_vars

\* C4 as stated: every pushed event is passed to SwitchMuteStates: when the
\* worker has left its wait loop on the quit signal and returned, no pushed
\* event is left that was never applied.
C4_EveryEventApplied ==
  (wpc = "done" /\ exitCode = 0) => unapplied = << >>

\* The worker is back in its wait after draining a chain of events, all of
\* them queued before it woke
ChainDrained == wpc = "wait" /\ batch.inCase /\ batch.procs # {}

ChainFinalState ==
  /\ \A s \in EqualRange(sessionsList, processIds[2]) : ~mute[s]
  /\ \A q \in batch.procs \ {processIds[2]} :
        \A s \in EqualRange(sessionsList, q) : mute[s]

Quiescent ==
  /\ wpc = "wait"
  /\ mpc = "loop"
  /\ eventQueue = << >>
  /\ ~ghEvents[0]

\* C6 as stated: whenever the queue is empty and the worker idle, once some
\* process has gained focus every registered single-process session of any
\* other process is muted.
C6_OnlyFocusedProcessAudible ==
  (Quiescent /\ oldProcessId # 0) =>
    \A s \in Sessions :
       (Registered(s) /\ ~CrossProcess(s) /\ SessionPid(s) # oldProcessId) => mute[s]

\* An AddAudioSession call on thread t has returned; it began after an earlier
\* call for the same session had completed and ran with no other call in progress
SecondCallDone(t) ==
  /\ apc[t] = "ret"
  /\ aentry[t].afterCall
  /\ aentry[t].alone

SecondCallNoOp(t) ==
  /\ Entries(sessionsList, asess[t]) = 1
  /\ Entries(sessionsList, asess[t]) = aentry[t].cnt
  /\ addRefs[asess[t]] = aentry[t].refs
  /\ aret[t] = "S_OK"

C8_OneEntryUnderConcurrency ==
  (/\ \A t \in Threads : apc[t] \in {"idle", "ret"} /\ aret[t] = "S_OK"
   /\ asess["enum"] # NoSession
   /\ asess["enum"] = asess["cb"])
     => Entries(sessionsList, asess["enum"]) = 1

\* C9 as stated: when an AddAudioSession call has returned and none is in
\* progress, an identity is in sessionIdSet iff sessionsList holds exactly
\* one handle with that identity.
C9_IdentityIffOneHandle ==
  (/\ \E t \in Threads : apc[t] = "ret"
   /\ \A t \in Threads : apc[t] \in {"idle", "ret"})
     => \A s \in Sessions :
           FullSessionId(s) \in sessionIdSet <=> Entries(sessionsList, s) = 1

\* C10 as stated: SwitchMuteStates never calls SetMute on a cross-process
\* session.
C10_NoSetMuteOnCrossProcess ==
  \A c \in CallsMade : ~CrossProcess(c[1])

\* C11 as stated: every entry of sessionsList holds a single-process session:
\* AddAudioSession never inserts a cross-process session under a process id.
C11_NoCrossProcessEntry ==
  \A e \in BagToSet(sessionsList) : ~CrossProcess(e[2])

\* Every QueryInterface and SetMute call of SwitchMuteStates(a, b) succeeds
AllOk(a, b) == [c \in MuteCalls(sessionsList, a, b) |-> "ok"]

\* C12 as stated: SwitchMuteStates(A, A) changes the mute state of no
\* session, for every process id A and every registry content (here with
\* every call it makes succeeding).
C12_SameProcessIsNoOp ==
  [][\A a \in ArgPids :
        CallSwitchMuteStatesWith(a, a, AllOk(a, a)) => mute' = mute]_vars

\* C13 as stated: SwitchMuteStates(old, new) changes the mute state of no
\* session when old is 0 or new is 0 (here with every call it makes
\* succeeding).
C13_ZeroProcessIsNoOp ==
  [][\A a, b \in ArgPids :
        ((a = 0 \/ b = 0) /\ CallSwitchMuteStatesWith(a, b, AllOk(a, b)))
           => mute' = mute]_vars

\* C14 as stated: every event WinEventProc pushes has both process ids
\* non-zero (the pushed events are the ones recorded in unapplied until the
\* worker applies them).
C14_PushedIdsNonZero ==
  \A i \in DOMAIN unapplied : unapplied[i][1] # 0 /\ unapplied[i][2] # 0

\* C15: every event WinEventProc pushes has its old process id different
\* from its new one, and WinEventProc gets to its push and to its SetEvent
\* only for a process other than the one recorded in oldProcessId: a
\* foreground change within that process pushes nothing and signals nothing.
C15_PushedOldDiffersFromNew ==
  /\ \A i \in DOMAIN unapplied : unapplied[i][1] # unapplied[i][2]
  /\ mpc \in {"pushing", "setEvent"} => switchedProcessId # oldProcessId

\* C15 witness: WinEventProc is between the push and the SetEvent of its
\* second event, after focus had been recorded for a process
C15_Witness ==
  /\ mpc = "setEvent"
  /\ nPushed >= 2
  /\ oldProcessId # 0
  /\ switchedProcessId # oldProcessId
  /\ unapplied # << >>

\* A step the main thread takes inside WinEventProc
InWinEventProc ==
  /\ mpc \in {"loop", "pushing", "setEvent"}
  /\ mpc' \in {"pushing", "setEvent", "loop"}
  /\ mpc' # mpc

\* C16: no step of WinEventProc calls into the audio capability: none makes a
\* QueryInterface or SetMute call, changes a mute state or touches the
\* session registry.
C16_CallbackMakesNoAudioCall ==
  [][InWinEventProc => UNCHANGED <<mute, lastCalls, regVars>>]_vars

\* C16 witness: WinEventProc has pushed an event whose new process has a
\* registered session, and no audio call has been made for it yet
C16_Witness ==
  /\ mpc = "setEvent"
  /\ EqualRange(sessionsList, switchedProcessId) # {}
  /\ lastCalls = {}
  /\ wpc = "wait"

\* C17: in the program of src/unnamed/part_000 no step taken inside
\* WinEventProc executes SwitchMuteStates: none makes a SetMute call or
\* changes a mute state.
C17_NoSwitchInsideCallback ==
  [][mpc = "switching" => UNCHANGED <<mute, lastCalls>>]_vars

\* C18, counted only for calls that returned success: when an AddAudioSession
\* call for a session has returned S_OK and no other call for that session
\* is in progress, the session is in sessionsList. The sessions concerned
\* are those of the enumerator and those created after the session-created
\* notification was registered.
C18_NoSessionLost ==
  \A t \in Threads :
     (/\ apc[t] = "ret"
      /\ aret[t] = "S_OK"
      /\ \A u \in Threads \ {t} : asess[u] = asess[t] => apc[u] \in {"idle", "ret"})
        => Entries(sessionsList, asess[t]) >= 1

\* AudioThreadRoutine returns one of the failure codes of the calls made
\* after the session-created notification was registered
FailureReturn == exitCode = -1 /\ exitCode' \in {5, 6, 7}

\* C19 as stated: when AudioThreadRoutine returns failure code 5, 6 or 7 it
\* has unregistered the session-created notification and has released every
\* handle that sessionsList held exactly once (and no other handle).
C19_UnwindReleasesEachOnce ==
  [][FailureReturn =>
       /\ notifRegistered' = FALSE
       /\ \A s \in Sessions :
             released'[s] = released[s] + (IF Entries(sessionsList, s) >= 1 THEN 1 ELSE 0)]_vars

\* C20 as stated, with the exit code the startup wait produces taken as the
\* code of the timeout: a tracker-initialisation failure (AudioThreadRoutine
\* has returned) makes WinMain exit with another code, and WinMain does not
\* go on into the message loop after a failed hook installation, it exits
\* with a code of its own.
C20_ExitCodeIdentifiesPhase ==
  /\ mainExit = StartupWaitExit => exitCode = -1
  /\ mpc = "loop" => hooked

\* C21: when a WinMain returns the exit code of a failed startup wait (the
\* tracker thread ended before the ready signal, or the wait timed out), no
\* focus hook is installed at that moment.
C21_NoHookAfterFailedStartup ==
  mainExit = StartupWaitExit => ~hooked

\* AudioThreadRoutine has returned one of its startup failure codes
TrackerFailed == exitCode \in 2..7

\* C22: a startup failure of AudioThreadRoutine ends that thread only:
\* WinMain does not return a failure code after it, it is still running or
\* has ended on the normal path.
C22_TrackerFailureNotFatal ==
  TrackerFailed => mainExit \in {-1, 0}

\* The positions of the audio thread inside its wait loop
InWaitLoop == wpc \in {"wait", "empty", "switch", "pop"}

\* C23: the lifecycle order of the queue-based program. The hook is
\* installed only when the tracker has registered its notification, ended
\* the enumeration without failure, signalled ready and passed the barrier
\* with WinMain; the quit signal is raised only when the hook has been
\* removed; WinMain has returned 0 only when the audio thread has exited.
C23_LifecycleOrder ==
  /\ hooked => /\ notifRegistered
               /\ InWaitLoop
               /\ enumI <= Len(enumSnap)
               /\ whr \in {"S_OK", "AUDCLNT_S_NO_SINGLE_PROCESS"}
               /\ mpc \in {"loop", "pushing", "setEvent", "unhook"}
  /\ ghEvents[1] => ~hooked /\ mpc \in {"join", "done"}
  /\ mainExit = 0 => wpc = "done" /\ exitCode # -1 /\ ghEvents[1]

\* C23 witness: a run went through every phase: focus events were pushed
\* while the hook was installed, and WinMain has returned 0
C23_Witness ==
  /\ mainExit = 0
  /\ nPushed >= 1
  /\ wpc = "done"

\* The worker is inside a batch: between a wake-up on the work event and its
\* return to the wait
InBatch == wpc \in {"empty", "switch", "pop"}

\* C24: shutdown of the worker is cooperative. A step taken inside a batch
\* never leaves the wait loop, whether the quit signal is raised or not; the
\* worker starts its teardown only with every queued event applied; and once
\* the quit signal is raised the worker eventually exits.
C24_CooperativeShutdown ==
  /\ [][InBatch => (InBatch' \/ (wpc' = "wait" /\ eventQueue = << >>))]_vars
  /\ [](wpc = "cleanup" => eventQueue = << >>)
  /\ (ghEvents[1] ~> (wpc = "done" /\ exitCode = 0))

\* C24 witness: the quit signal is raised while the worker is draining a
\* batch that still has an event to apply
C24_Witness ==
  /\ ghEvents[1]
  /\ wpc = "switch"
  /\ eventQueue # << >>

\* The worker has left its wait loop on the quit signal and returned
WorkerExited == wpc = "done" /\ exitCode = 0

\* C25: when the worker has exited after the quit signal, the session-created
\* notification is unregistered, and every handle ever inserted into
\* sessionsList has been released exactly once, the releases matching the
\* references AddAudioSession took.
C25_TeardownReleasesAll ==
  WorkerExited =>
    /\ ~notifRegistered
    /\ \A s \in Sessions :
          /\ released[s] = addRefs[s]
          /\ Entries(sessionsList, s) >= 1 => released[s] = 1

\* After a call SwitchMuteStates(a, b) with call outcomes out: every session
\* under a whose own call did not fail is muted, every session under b whose
\* own call did not fail is unmuted
OthersGetTheirState(a, b, out) ==
  /\ \A s \in EqualRange(sessionsList, a) : out[<<s, TRUE>>] = "ok" => mute'[s]
  /\ \A s \in EqualRange(sessionsList, b) : out[<<s, FALSE>>] = "ok" => ~mute'[s]

\* The outcomes of a set of calls of which exactly n fail
OutcomesWithFailures(calls, n) ==
  UNION {{[c \in calls |-> IF c \in F THEN k[c] ELSE "ok"] :
             k \in [F -> CallOutcomes \ {"ok"}]} :
           F \in {G \in SUBSET calls : Cardinality(G) = n}}

WorkerQueueAccess == wpc \in {"empty", "switch", "pop"} /\ wpc' # wpc

\* C27: accesses to eventQueue exclude one another: the worker takes no
\* empty/front/pop step while a push of WinEventProc is in progress.
C27_QueueAccessesExclusive ==
  [][WorkerQueueAccess => mpc # "pushing"]_vars

\* C28: the duplicate test on sessionIdSet and the insertion of the identity
\* are made inside one critical section: at most one thread is between its
\* test and its insertion at any time.
C28_RegistryAccessSerialized ==
  Cardinality({t \in Threads : apc[t] = "insertId"}) <= 1

\* C29: the registry only grows, whatever step is taken, a session-disconnect
\* notification included; and a session whose disconnect notification was
\* delivered keeps its entry in sessionsList and its identity in
\* sessionIdSet, and SwitchMuteStates still addresses it when its process
\* loses or gains focus.
C29_DisconnectLeavesRegistry ==
  /\ [][/\ \A s \in Sessions : Entries(sessionsList', s) >= Entries(sessionsList, s)
        /\ sessionIdSet \subseteq sessionIdSet']_vars
  /\ [](\A s \in disconnected :
           /\ Entries(sessionsList, s) >= 1
           /\ FullSessionId(s) \in sessionIdSet
           /\ <<s, TRUE>> \in MuteCalls(sessionsList, SessionPid(s), 0)
           /\ <<s, FALSE>> \in MuteCalls(sessionsList, 0, SessionPid(s)))

\* C29 witness: the disconnect notification of a registered session was
\* delivered while the worker is in its wait loop
C29_Witness ==
  /\ wpc = "wait"
  /\ \E s \in disconnected : Entries(sessionsList, s) >= 1

\* C30: AutoMuteRoutine of the APC variant tests its inputs in the order of
\* its description: a null pSessionMgr gives E_POINTER whatever the process
\* ids are; with a session manager, a zero newProcId or prevProcId gives
\* E_INVALIDARG; with a session manager and non-zero ids, equal ids give
\* S_FALSE; and none of these calls changes a mute flag.
C30_InputChecksInDocumentedOrder ==
  [][\A mgr \in BOOLEAN : \A newProcId, prevProcId \in ArgPids : \A fail \in APCFailures :
        CallAutoMuteRoutineWith(mgr, newProcId, prevProcId, fail) =>
          /\ ~mgr => (whr' = "E_POINTER" /\ mute' = mute)
          /\ (mgr /\ (newProcId = 0 \/ prevProcId = 0)) =>
                (whr' = "E_INVALIDARG" /\ mute' = mute)
          /\ (mgr /\ newProcId # 0 /\ newProcId = prevProcId) =>
                (whr' = "S_FALSE" /\ mute' = mute)]_vars

\* The call of AutoMuteRoutine passed its input tests and reached the loop
ReachedLoop ==
  /\ lastRun.called
  /\ lastRun.mgr
  /\ lastRun.newProcId # 0
  /\ lastRun.prevProcId # 0
  /\ lastRun.newProcId # lastRun.prevProcId
  /\ lastRun.fail \notin {<<0, "GetSessionEnumerator">>, <<0, "GetCount">>}

Skipped(s) == IsSystemSoundsSession(s) \/ CrossProcess(s)

\* C31: AutoMuteRoutine of the APC variant attempts no SetMute on a
\* system-sounds session or a cross-process session and leaves their mute
\* flags alone; and when no call fails, the loop visits every session,
\* attempts SetMute(false) on every other session of newProcId and
\* SetMute(true) on every other session of prevProcId, and returns S_OK.
C31_SkipsSystemAndCrossProcess ==
  lastRun.called =>
    /\ \A c \in lastCalls : ~Skipped(c[1])
    /\ \A s \in created : Skipped(s) => mute[s] = lastRun.before[s]
    /\ (ReachedLoop /\ ~lastRun.failed) =>
          /\ whr = "S_OK"
          /\ lastRun.visited = created
          /\ \A s \in created :
                ~Skipped(s) =>
                   /\ SessionPid(s) = lastRun.newProcId => <<s, FALSE, "ok">> \in lastCalls
                   /\ SessionPid(s) = lastRun.prevProcId => <<s, TRUE, "ok">> \in lastCalls

\* A call that met a cross-process session and a system-sounds session,
\* changed the mute flag of a session that follows them, and returned S_OK
C31_Witness ==
  /\ ReachedLoop
  /\ whr = "S_OK"
  /\ \E x, y, s \in created :
        /\ CrossProcess(x)
        /\ IsSystemSoundsSession(y)
        /\ x < s /\ y < s
        /\ \E b \in BOOLEAN : <<s, b, "ok">> \in lastCalls /\ lastRun.before[s] # b

\* C32: AutoMuteRoutine of the APC variant stops at the first call that
\* fails: it returns the HRESULT of that call, has visited no session after
\* the one the call was made on and attempted no SetMute after it, and holds
\* no interface pointer when it returns (in every run, failed or not); it
\* returns S_OK only if no call failed.
C32_AbortsAtFirstFailure ==
  lastRun.called =>
    /\ lastRun.held = {}
    /\ lastRun.failed =>
          /\ whr = FailureCode(lastRun.fail[2])
          /\ \A s \in lastRun.visited : s <= lastRun.fail[1]
          /\ \A c \in lastCalls : c[1] <= lastRun.fail[1]
          /\ \A s \in created : s > lastRun.fail[1] => mute[s] = lastRun.before[s]
          /\ \A s \in created : s = lastRun.fail[1] => mute[s] = lastRun.before[s]
    /\ whr = "S_OK" => ~lastRun.failed

\* A call in which SetMute succeeded on one session and a call on a later
\* session failed while a further session of the two processes was left
C32_Witness ==
  /\ ReachedLoop
  /\ lastRun.failed
  /\ \E c \in lastCalls : c[3] = "ok" /\ c[1] < lastRun.fail[1]
  /\ \E s \in created :
        /\ s > lastRun.fail[1]
        /\ ~Skipped(s)
        /\ SessionPid(s) \in {lastRun.newProcId, lastRun.prevProcId}

\* C33: in the Sleep-based handshake the tracker's own WaitForSingleObject
\* never takes the ready signal the tracker raised: when the tracker has
\* returned from that wait, the main thread has passed its startup wait and
\* its message loop and has raised the event at shutdown.
C33_ReadySignalTakenByMain ==
  (wpc = "done" /\ exitCode = 0) =>
     (mpc = "unhook" \/ (mpc = "done" /\ mainExit = 0))

\* C34: the worker never takes its own ready signal for work: the work event
\* is not signalled when the two threads stand at the barrier, and whenever
\* the worker is at its work/quit wait with the work event signalled, a
\* WinEventProc has pushed an event.
C34_ReadySignalNotTakenAsWork ==
  /\ (wpc = "barrier" /\ mpc = "barrier") => ~ghEvents[0]
  /\ (wpc = "wait" /\ ghEvents[0]) => nPushed >= 1

\* The worker has returned from its wait for the first time, on the work
\* event of the first focus change
C34_Witness ==
  /\ wpc = "empty"
  /\ nPushed = 1
  /\ lastCalls = {}
  /\ Len(eventQueue) = 1

\* C35: no wake-up is lost: whenever eventQueue is not empty, WinEventProc is
\* not between its push and its SetEvent, and the worker is at its
\* work/quit wait, the work event is signalled.
C35_NoLostWakeup ==
  (/\ eventQueue # << >>
   /\ mpc \notin {"pushing", "setEvent"}
   /\ wpc = "wait") => ghEvents[0]

\* The worker has drained the first event and gone back to its wait, and a
\* second event has been pushed and signalled
C35_Witness ==
  /\ wpc = "wait"
  /\ mpc = "loop"
  /\ nPushed = 2
  /\ Len(eventQueue) = 1
  /\ ghEvents[0]

\* The pushed events that are still unapplied are the last ones pushed, in
\* push order; they are all the pushed events while none has been applied.
ChainedPushes ==
  /\ (unapplied # << >> /\ Len(unapplied) = nPushed) => unapplied[1][1] = 0
  /\ \A i \in 1..(Len(unapplied) - 1) : unapplied[i + 1][1] = unapplied[i][2]

\* C36 as stated: the first pushed event has old process id 0, every pushed
\* event's old process id is the new process id of the event pushed before
\* it, and oldProcessId is at all times the new process id of the last
\* pushed event.
C36_EventChainAlways ==
  /\ ChainedPushes
  /\ unapplied # << >> => oldProcessId = unapplied[Len(unapplied)][2]

\* C36, amended: the same, with oldProcessId equal to the new process id of
\* the last pushed event whenever WinEventProc is not between its push and
\* its assignment to oldProcessId.
C36_EventChain ==
  /\ ChainedPushes
  /\ (unapplied # << >> /\ mpc \notin {"pushing", "setEvent"}) =>
        oldProcessId = unapplied[Len(unapplied)][2]

\* Three events have been pushed, none applied yet, and WinEventProc has
\* returned
C36_Witness ==
  /\ nPushed = 3
  /\ Len(unapplied) = 3
  /\ mpc = "loop"
  /\ unapplied[3][2] # unapplied[1][2]

\* WinMain has called DeleteCriticalSection(&hashmapCriticalSection): it does
\* so right before each return that follows the initialisation
CriticalSectionDeleted == mainExit \in {0, 2, StartupWaitExit}

\* Thread t is inside AddAudioSession, before its EnterCriticalSection
BeforeEnterCriticalSection(t) == apc[t] \in {"get", "insertId", "register"}

\* C37: once WinMain has deleted hashmapCriticalSection, no thread is on its
\* way to EnterCriticalSection.
C37_NoEnterAfterDelete ==
  CriticalSectionDeleted => \A t \in Threads : ~BeforeEnterCriticalSection(t)

\* C38: the reference count of the stack-allocated CAudioSessionEvents
\* listener never reaches zero (its Release never runs delete this).
C38_ListenerCountStaysPositive == cRef >= 1

\* C39: no step of AddAudioSession (its entry from the enumeration or from
\* OnSessionCreated, its steps, its return) changes a mute flag; a mute flag
\* changes only in the worker's SwitchMuteStates call, to muted only for a
\* registered session whose owner is the old process id of the event and to
\* unmuted only for one whose owner is its new process id.
C39_AddAudioSessionChangesNoMute ==
  /\ [][apc' # apc => mute' = mute]_vars
  /\ [][\A s \in Sessions :
          /\ (~mute[s] /\ mute'[s]) =>
                /\ wpc = "switch"
                /\ processIds'[1] = SessionPid(s)
                /\ Entries(sessionsList, s) >= 1
          /\ (mute[s] /\ ~mute'[s]) =>
                /\ wpc = "switch"
                /\ processIds'[2] = SessionPid(s)
                /\ Entries(sessionsList, s) >= 1]_vars

\* Session 2 was registered by the creation callback while the program ran
\* and has now been muted by an event whose old process id is its owner
C39_Witness ==
  /\ late >= 1
  /\ Entries(sessionsList, 2) >= 1
  /\ mute[2]
  /\ <<2, TRUE, "ok">> \in lastCalls
  /\ processIds[1] = SessionPid(2)

\* C40: the process id APCAutoMuteRoutine reads through its argument is the
\* process id of the window of the WinEventProc invocation that queued the
\* call.
C40_APCReadsQueuedProcessId ==
  [][(eventQueue # << >> /\ eventQueue' = Tail(eventQueue)) =>
        processIds'[2] = Head(eventQueue)[2]]_vars

====
